---- MODULE Spec2Model ----
(***************************************************************************)
(* Signal Sports Analytics: the derived-metrics core (src/utils.py,        *)
(* src/models.py) as a call/return state machine.  The functions are       *)
(* stateless, so a behaviour is one call: the state holds which function   *)
(* was called, its arguments, what it returned, whether it raised, and the *)
(* table the caller passed in as it is once the call is over.  For         *)
(* find_player_comps it also holds the local distances[0][1:], the         *)
(* distances of the returned rows, squared.  The dashboard script          *)
(* src/app.py is a process of its own: pc is the block it is about to run  *)
(* and assigned is the set of names bound in its namespace.                *)
(*                                                                         *)
(* Numbers.  A Python float is modelled as an exact fraction <<n, d>> in   *)
(* lowest terms with d > 0; the missing value NaN is <<0, 0>>.  Every      *)
(* comparison that involves NaN is false, as in IEEE 754 / Python.         *)
(* Rounding of binary floating point is not modelled: sums, quotients and  *)
(* the products by 1.2 and 0.8 are exact.                                  *)
(***************************************************************************)
EXTENDS Integers, Sequences, FiniteSets, Bags, TLC

VARIABLES pc, op, args, ret, raised, caller_table, comp_distances, assigned

vars == <<pc, op, args, ret, raised, caller_table, comp_distances, assigned>>

(***************************************************************************)
(* Bounds of the explored inputs.                                          *)
(***************************************************************************)
\* rest_days ranges over -NegRestDays .. MaxRestDays
MaxRestDays == 10
NegRestDays == 2
\* minutes_last_game ranges over halves of a minute, -NegMinuteHalves/2 .. MaxMinuteHalves/2
MaxMinuteHalves == 100
NegMinuteHalves == 3
\* clamp's three arguments range over halves in -ClampRange/2 .. ClampRange/2
ClampRange == 3
\* clamp with default bounds: value in halves, -NegMinuteHalves/2 .. MaxDefaultHalves/2
MaxDefaultHalves == 203
\* longest sequence handed to safe_mean / compute_rolling_average
MaxLen == 4
\* largest value in a safe_mean input
MaxMeanVal == 4
\* compute_rolling_average: values 0, 10, .. 10*MaxRollTens, windows 1..MaxWindow
MaxRollTens == 3
MaxWindow == 3
\* build_prop_validator: game logs of 0 .. MaxRows rows
MaxRows == 3
\* build_prop_validator on game logs longer than its window: up to MaxLongRows
\* rows
MaxLongRows == 7
\* _clean_league_stats: source tables of 0 .. MaxLeagueRows rows
MaxLeagueRows == 2
\* get_sport_config, create_loader: sport strings of 0 .. MaxSportLen characters
MaxSportLen == 3
\* load_nhl_team_stats, load_nhl_standings: payloads of 0 .. MaxTeams teams
MaxTeams == 2
\* load_nhl_standings: payloads of 0 .. MaxRecords records
MaxRecords == 1
\* find_player_comps: league tables of 0 .. MaxPlayers rows
MaxPlayers == 4

(***************************************************************************)
(* Float arithmetic (exact fractions, NaN-aware).                          *)
(***************************************************************************)
NaN == <<0, 0>>

Abs(n) == IF n < 0 THEN -n ELSE n

RECURSIVE GCD(_, _)
GCD(a, b) == IF b = 0 THEN a ELSE GCD(b, a % b)

\* the float n/d; d = 0 gives NaN (numpy's 0/0)
Frac(n, d) ==
    IF d = 0 THEN NaN
    ELSE LET g == GCD(Abs(n), Abs(d))
             s == IF d < 0 THEN -1 ELSE 1
         IN  <<(s * n) \div g, (s * d) \div g>>

Num(n) == <<n, 1>>

IsNaN(x) == x[2] = 0

\* a < b on floats: false when either side is NaN
Lt(a, b) == ~IsNaN(a) /\ ~IsNaN(b) /\ a[1] * b[2] < b[1] * a[2]
Gt(a, b) == Lt(b, a)
Le(a, b) == ~IsNaN(a) /\ ~IsNaN(b) /\ a[1] * b[2] <= b[1] * a[2]

Add(a, b) ==
    IF IsNaN(a) \/ IsNaN(b) THEN NaN
    ELSE Frac(a[1] * b[2] + b[1] * a[2], a[2] * b[2])

Mul(a, b) ==
    IF IsNaN(a) \/ IsNaN(b) THEN NaN
    ELSE Frac(a[1] * b[1], a[2] * b[2])

\* a / b for a non-zero constant divisor b
Div(a, b) ==
    IF IsNaN(a) \/ IsNaN(b) THEN NaN
    ELSE Frac(a[1] * b[2], a[2] * b[1])

\* Python's builtin min(a, b) and max(a, b): the first argument is kept
\* unless the second compares strictly smaller / larger
PyMin(a, b) == IF Lt(b, a) THEN b ELSE a
PyMax(a, b) == IF Gt(b, a) THEN b ELSE a

(***************************************************************************)
(* src/utils.py                                                            *)
(***************************************************************************)
ClampDefaultLower == 0
ClampDefaultUpper == 100

\* a plausible slip: the bounds applied in the wrong order
clamp_swapped(value, lower, upper) == PyMin(lower, PyMax(value, upper))

\* clamp(value, lower, upper): float(max(lower, min(value, upper)))
clamp(value, lower, upper) == PyMax(lower, PyMin(value, upper))

\* values with every NaN replaced by 0 (numpy's _replace_nan(a, 0)), summed
RECURSIVE SumReplacingNaN(_)
SumReplacingNaN(values) ==
    IF values = <<>> THEN Num(0)
    ELSE Add(IF IsNaN(Head(values)) THEN Num(0) ELSE Head(values),
             SumReplacingNaN(Tail(values)))

\* the number of entries that are not NaN
RECURSIVE CountNotNaN(_)
CountNotNaN(values) ==
    IF values = <<>> THEN 0
    ELSE (IF IsNaN(Head(values)) THEN 0 ELSE 1) + CountNotNaN(Tail(values))

\* a plausible slip: np.mean in place of np.nanmean, one NaN makes the mean NaN
np_mean(values) ==
    IF CountNotNaN(values) < Len(values) THEN NaN
    ELSE Div(SumReplacingNaN(values), Num(Len(values)))

\* np.nanmean(values): the sum with NaN as 0 over the count of non-NaN
\* entries; with no such entry it is 0/0 = NaN and a RuntimeWarning
\* ("Mean of empty slice"), which is not an exception
np_nanmean(values) ==
    LET cnt == CountNotNaN(values)
        tot == SumReplacingNaN(values)
    IN  IF cnt = 0 THEN NaN ELSE Div(tot, Num(cnt))

\* safe_mean(values): [raised, value]
safe_mean(values) ==
    IF Len(values) = 0
    THEN [raised |-> FALSE, value |-> Num(0)]
    ELSE [raised |-> FALSE, value |-> np_nanmean(values)]

\* the window of position i: positions max(1, i - window + 1) .. i
WindowOf(series, i, window) ==
    LET lo == IF i - window + 1 < 1 THEN 1 ELSE i - window + 1
    IN  SubSeq(series, lo, i)

\* pandas' rolling(window, min_periods).mean(): the mean of the observations
\* (non-NaN entries) of each window, NaN when there are fewer than min_periods
RollingMean(series, window, min_periods) ==
    [i \in 1 .. Len(series) |->
        LET w == WindowOf(series, i, window)
            nobs == CountNotNaN(w)
        IN  IF nobs >= min_periods /\ nobs > 0
            THEN Div(SumReplacingNaN(w), Num(nobs))
            ELSE NaN]

\* a plausible slip: min_periods left at its default, the window size
rolling_default_min_periods(series, window) == RollingMean(series, window, window)

\* a plausible slip: expanding().mean(), the mean of everything so far
rolling_expanding(series, window) == RollingMean(series, Len(series), 1)

\* compute_rolling_average(series, window):
\* series.rolling(window=window, min_periods=1).mean()
compute_rolling_average(series, window) == RollingMean(series, window, 1)

(***************************************************************************)
(* src/models.py: calculate_fatigue_score                                  *)
(***************************************************************************)
RestPenaltyPerDay == 15
TravelPenalty == 10
RegulationMinutes == 48
MinutesWeight == 40

\* a plausible slip: the rest penalty added where it is subtracted
rest_component_rising(rest_days) ==
    clamp(Num(100 + rest_days * RestPenaltyPerDay), Num(0), Num(100))

\* rest_component = clamp(100 - (inputs.rest_days * 15), 0, 100)
rest_component(rest_days) ==
    clamp(Num(100 - rest_days * RestPenaltyPerDay), Num(0), Num(100))

\* a plausible slip: the travel penalty charged to the home side
travel_component_home(is_home) == IF is_home THEN Num(TravelPenalty) ELSE Num(0)

\* travel_component = 10 if not inputs.is_home else 0
travel_component(is_home) == IF ~is_home THEN Num(TravelPenalty) ELSE Num(0)

\* a plausible slip: the cap of the minutes component at 40 left out
minutes_component_uncapped(minutes_last_game) ==
    Mul(Div(minutes_last_game, Num(RegulationMinutes)), Num(MinutesWeight))

\* minutes_component = clamp((inputs.minutes_last_game / 48) * 40, 0, 40)
minutes_component(minutes_last_game) ==
    clamp(Mul(Div(minutes_last_game, Num(RegulationMinutes)), Num(MinutesWeight)),
          Num(0), Num(MinutesWeight))

\* a plausible slip: the raw score returned without the final clamp
fatigue_unclamped(rest_days, is_home, minutes_last_game) ==
    Add(Add(rest_component(rest_days), travel_component(is_home)),
        minutes_component(minutes_last_game))

calculate_fatigue_score(rest_days, is_home, minutes_last_game) ==
    LET raw_score == Add(Add(rest_component(rest_days), travel_component(is_home)),
                         minutes_component(minutes_last_game))
    IN  clamp(raw_score, Num(0), Num(100))

(***************************************************************************)
(* Tables.  A pandas DataFrame is [cols, rows]: its set of column names    *)
(* and the sequence of its rows; a row is a record over the columns plus   *)
(* "idx", its index label, which sorting and copying carry along.          *)
(***************************************************************************)
\* pd.DataFrame()
EmptyFrame == [cols |-> {}, rows |-> <<>>]

\* DataFrame.empty: no rows or no columns
IsEmptyFrame(df) == Len(df.rows) = 0 \/ df.cols = {}

\* a missing date (pd.NaT, what pd.to_datetime(errors="coerce") leaves)
NaT == 0

\* df[col] as a sequence, in row order
Column(df, col) == [i \in 1 .. Len(df.rows) |-> df.rows[i][col]]

RECURSIVE InOrder(_)
\* the positions of a set in increasing order
InOrder(positions) ==
    IF positions = {} THEN <<>>
    ELSE LET first == CHOOSE i \in positions : \A j \in positions : i <= j
         IN  <<first>> \o InOrder(positions \ {first})

RECURSIVE EarliestFirst(_, _, _)
\* the ways to extend the order placed by the rows of rest, each an earliest
\* of the rows not yet placed
EarliestFirst(df, placed, rest) ==
    IF rest = {} THEN {placed}
    ELSE LET earliest == {i \in rest : \A j \in rest :
                             df.rows[i].GAME_DATE <= df.rows[j].GAME_DATE}
         IN  UNION {EarliestFirst(df, Append(placed, i), rest \ {i}) : i \in earliest}

\* DataFrame.sort_values("GAME_DATE") with its defaults (ascending,
\* kind="quicksort", na_position="last"): the row orders it can produce.
\* order[i] is the input position of the row placed at i.  The rows with a
\* date come first in non-decreasing date order; quicksort is not stable, so
\* rows with equal dates may come out in either order.  The rows without a
\* date follow, in input order (nargsort appends them as found).
SortOrders(df) ==
    LET n == Len(df.rows)
        dated == {i \in 1 .. n : df.rows[i].GAME_DATE # NaT}
        undated == {i \in 1 .. n : df.rows[i].GAME_DATE = NaT}
    IN  {front \o InOrder(undated) : front \in EarliestFirst(df, <<>>, dated)}

\* the order DataFrame.copy() keeps
InputOrder(df) == [i \in 1 .. Len(df.rows) |-> i]

(***************************************************************************)
(* src/models.py: build_prop_validator                                     *)
(***************************************************************************)
RollingWindow == 5
HotFactor == Frac(12, 10)
ColdFactor == Frac(8, 10)

\* a plausible slip: the thresholds made inclusive
signal_inclusive(rolling_avg, season_avg) ==
    IF Le(Mul(season_avg, HotFactor), rolling_avg) THEN "Hot Streak"
    ELSE IF Le(rolling_avg, Mul(season_avg, ColdFactor)) THEN "Cold Streak"
    ELSE "Neutral"

\* a plausible slip: a season average of 0 treated as "no signal"
signal_zero_neutral(rolling_avg, season_avg) ==
    IF season_avg = Num(0) THEN "Neutral"
    ELSE IF Gt(rolling_avg, Mul(season_avg, HotFactor)) THEN "Hot Streak"
    ELSE IF Lt(rolling_avg, Mul(season_avg, ColdFactor)) THEN "Cold Streak"
    ELSE "Neutral"

\* np.where(Rolling_Avg > season_avg * 1.2, "Hot Streak",
\*          np.where(Rolling_Avg < season_avg * 0.8, "Cold Streak", "Neutral"))
signal(rolling_avg, season_avg) ==
    IF Gt(rolling_avg, Mul(season_avg, HotFactor)) THEN "Hot Streak"
    ELSE IF Lt(rolling_avg, Mul(season_avg, ColdFactor)) THEN "Cold Streak"
    ELSE "Neutral"

\* a plausible slip: the mean taken of the Rolling_Avg column
season_average_of_rolling(stats) ==
    safe_mean(compute_rolling_average(stats, RollingWindow)).value

\* season_avg = safe_mean(sorted_games[stat_col])
season_average(stats) == safe_mean(stats).value

\* a plausible slip: "and" for "or" in the guard
prop_guard_and(game_log, stat_col) ==
    IsEmptyFrame(game_log) /\ stat_col \notin game_log.cols

\* if game_log.empty or stat_col not in game_log.columns
prop_guard(game_log, stat_col) ==
    IsEmptyFrame(game_log) \/ stat_col \notin game_log.cols

\* a plausible slip: the rows left in input order although GAME_DATE exists
sorted_games_unsorted(game_log, order) == game_log

\* sorted_games: game_log.sort_values("GAME_DATE") when the column exists,
\* game_log.copy() when it does not; a new table either way
sorted_games(game_log, order) ==
    IF "GAME_DATE" \in game_log.cols
    THEN [cols |-> game_log.cols,
          rows |-> [i \in 1 .. Len(game_log.rows) |-> game_log.rows[order[i]]]]
    ELSE game_log

\* a plausible slip: "sorted_games = game_log" for a log without GAME_DATE,
\* so that the new columns land in the caller's table
sorted_games_shares_undated(game_log) == "GAME_DATE" \notin game_log.cols

\* whether sorted_games is the caller's table itself: never, sort_values
\* (inplace=False) and copy() both build a new table
sorted_games_shares(game_log) == FALSE

\* a plausible slip: the rolling average taken of the column as supplied
rolling_stats_unsorted(game_log, sg, stat_col) == Column(game_log, stat_col)

\* sorted_games[stat_col], the column the averages are taken of
rolling_stats(game_log, sg, stat_col) == Column(sg, stat_col)

\* build_prop_validator(game_log, stat_col), where order is the row order the
\* sort produced: [raised, frame, game_log], the last being the caller's
\* game log after the call.  Indexing a column the table lacks raises
\* KeyError.  The three columns are assigned to sorted_games.
build_prop_validator(game_log, stat_col, order) ==
    IF prop_guard(game_log, stat_col)
    THEN [raised |-> FALSE, frame |-> EmptyFrame, game_log |-> game_log]
    ELSE IF stat_col \notin game_log.cols
    THEN [raised |-> TRUE, frame |-> EmptyFrame, game_log |-> game_log]
    ELSE
        LET sg == sorted_games(game_log, order)
            stats == rolling_stats(game_log, sg, stat_col)
            rolling == compute_rolling_average(stats, RollingWindow)
            season_avg == season_average(stats)
            frame ==
                [cols |-> sg.cols \cup {"Rolling_Avg", "Season_Avg", "Signal"},
                 rows |-> [i \in 1 .. Len(sg.rows) |->
                             [Rolling_Avg |-> rolling[i],
                              Season_Avg |-> season_avg,
                              Signal |-> signal(rolling[i], season_avg)]
                             @@ sg.rows[i]]]
        IN  [raised |-> FALSE,
             frame |-> frame,
             game_log |-> IF sorted_games_shares(game_log) THEN frame ELSE game_log]

(***************************************************************************)
(* src/models.py: build_similarity_model, find_player_comps                *)
(*                                                                         *)
(* Distances.  StandardScaler divides each centred column by its standard  *)
(* deviation, a square root, and the Euclidean distance is another; the    *)
(* model keeps the squares, which are fractions: the squared distance of   *)
(* two scaled rows is the sum over the columns of (x - y)^2 / scale^2.     *)
(* Squaring keeps the order of distances, which is all kneighbors uses.    *)
(***************************************************************************)
NNeighbors == 4

RECURSIVE Tabulated(_, _)
\* the function f on 1 .. n as a sequence of computed values
Tabulated(f, n) == IF n = 0 THEN <<>> ELSE Append(Tabulated(f, n - 1), f[n])

\* a plausible slip: the missing value filled with another constant
FillNa_one(x) == IF IsNaN(x) THEN Num(1) ELSE x

\* DataFrame.fillna(0) on one cell
FillNa(x) == IF IsNaN(x) THEN Num(0) ELSE x

\* stats[feature_cols].fillna(0): one sequence of floats per row
FeatureMatrix(stats, feature_cols) ==
    Tabulated([i \in 1 .. Len(stats.rows) |->
                 Tabulated([k \in 1 .. Len(feature_cols) |->
                              FillNa(stats.rows[i][feature_cols[k]])],
                           Len(feature_cols))],
              Len(stats.rows))

\* the squared scale StandardScaler.fit gives column k: the population
\* variance mean(x^2) - mean(x)^2, or 1 for a constant column
\* (_handle_zeros_in_scale)
ScaleSquared(matrix, k) ==
    LET n == Len(matrix)
        col == [i \in 1 .. n |-> matrix[i][k]]
        sq == [i \in 1 .. n |-> Mul(col[i], col[i])]
        mean == Div(SumReplacingNaN(col), Num(n))
        var == Add(Div(SumReplacingNaN(sq), Num(n)), Mul(Num(-1), Mul(mean, mean)))
    IN  IF var = Num(0) THEN Num(1) ELSE var

RECURSIVE SumOver(_, _, _)
\* f[1] + .. + f[k]
SumOver(f, k, acc) == IF k = 0 THEN acc ELSE SumOver(f, k - 1, Add(acc, f[k]))

\* the squared Euclidean distance of rows q and i after scaling by the
\* squared scales scale2 (the column means cancel in the difference)
SquaredDistance(matrix, scale2, q, i) ==
    LET nf == Len(scale2)
        term == [k \in 1 .. nf |->
                    LET diff == Add(matrix[q][k], Mul(Num(-1), matrix[i][k]))
                    IN  Div(Mul(diff, diff), scale2[k])]
    IN  SumOver(term, nf, Num(0))

RECURSIVE NearestFirst(_, _, _)
\* the ways to extend the list chosen by k more rows, each a nearest of the
\* rows not yet listed
NearestFirst(d2, chosen, k) ==
    IF k = 0 THEN {chosen}
    ELSE LET rest == (1 .. Len(d2)) \ {chosen[a] : a \in 1 .. Len(chosen)}
             nearest == {i \in rest : \A j \in rest : Le(d2[i], d2[j])}
         IN  UNION {NearestFirst(d2, Append(chosen, i), k - 1) : i \in nearest}

\* model.kneighbors(player_vector, n_neighbors=4): what it can return for
\* the distances d2, the positions of 4 rows, nearest first, and their
\* distances.  Rows at equal distance come in an order the index does not
\* specify, and which of them make the list is unspecified too.
NeighborLists(d2) ==
    {[indices |-> nb,
      distances |-> Tabulated([a \in 1 .. NNeighbors |-> d2[nb[a]]], NNeighbors)] :
        nb \in NearestFirst(d2, <<>>, NNeighbors)}

\* the largest of a non-empty sequence of floats
MaxOf(ds) == CHOOSE m \in {ds[i] : i \in 1 .. Len(ds)} :
                \A i \in 1 .. Len(ds) : Le(ds[i], m)

\* a plausible slip: the distances divided by the nearest comp's, not the
\* farthest's
score_denominator_first(comp_d2) == comp_d2[1]

\* max(distances[0][1:].max(), 1e-6), squared.  Every non-zero distance of
\* the tables explored is far above 1e-6, so the guard acts only on 0.
score_denominator(comp_d2) == MaxOf(comp_d2)

\* a plausible slip: the distances divided by their maximum without the
\* 1e-6 guard, 0 / 0 when every comp is at distance 0
similarity_score_unguarded(d2, comp_d2) ==
    [radicand |-> Div(d2, score_denominator(comp_d2))]

\* 1 - distance / max(distances.max(), 1e-6), kept as [radicand |-> q] for
\* the real number 1 - sqrt(q), q the quotient of the squared distances; with
\* all distances 0 the quotient is 0 / 1e-12 = 0
similarity_score(d2, comp_d2) ==
    IF MaxOf(comp_d2) = Num(0)
    THEN [radicand |-> Num(0)]
    ELSE [radicand |-> Div(d2, score_denominator(comp_d2))]

\* the positions of the rows with stats["Player"] == player_name
PlayerRows(stats, player_name) ==
    {i \in 1 .. Len(stats.rows) : stats.rows[i].Player = player_name}

\* how far find_player_comps gets before it asks for neighbours:
\* "empty" (a guard returns pd.DataFrame()), "raise" (an exception leaves the
\* function) or "query" (kneighbors is called and succeeds).
\*   line 49  empty table or a feature column missing: return
\*   line 51  StandardScaler.fit_transform on 0 columns: ValueError
\*   line 52  stats["Player"] without that column: KeyError
\*   line 53  no row of that name: return
\*   line 57  kneighbors(n_neighbors=4) on fewer than 4 rows: ValueError
comps_stage(stats, player_name, feature_cols) ==
    IF IsEmptyFrame(stats)
          \/ \E k \in 1 .. Len(feature_cols) : feature_cols[k] \notin stats.cols
    THEN "empty"
    ELSE IF Len(feature_cols) = 0 THEN "raise"
    ELSE IF "Player" \notin stats.cols THEN "raise"
    ELSE IF PlayerRows(stats, player_name) = {} THEN "empty"
    ELSE IF Len(stats.rows) < NNeighbors THEN "raise"
    ELSE "query"

\* the squared distance of every row to the (first) row of the player
QueryDistances(stats, player_name, feature_cols) ==
    LET matrix == FeatureMatrix(stats, feature_cols)
        scale2 == Tabulated([k \in 1 .. Len(feature_cols) |-> ScaleSquared(matrix, k)],
                            Len(feature_cols))
        q == CHOOSE i \in PlayerRows(stats, player_name) :
                \A j \in PlayerRows(stats, player_name) : i <= j
    IN  Tabulated([i \in 1 .. Len(stats.rows) |-> SquaredDistance(matrix, scale2, q, i)],
                  Len(stats.rows))

\* a plausible slip: fillna(0, inplace=True) on the feature columns of stats
stats_after_fillna_inplace(stats, feature_cols) ==
    [cols |-> stats.cols,
     rows |-> [i \in 1 .. Len(stats.rows) |->
                 [c \in DOMAIN stats.rows[i] |->
                     IF \E k \in 1 .. Len(feature_cols) : feature_cols[k] = c
                     THEN FillNa(stats.rows[i][c]) ELSE stats.rows[i][c]]]]

\* the caller's table once the features were read: stats[feature_cols]
\* .fillna(0) builds a new table and leaves stats alone
stats_after_fillna(stats, feature_cols) == stats

\* find_player_comps(stats, player_name, feature_cols), where neighbors is
\* what kneighbors returned, [indices, distances] (squared): [raised, frame,
\* stats, comp_distances], stats being the caller's table after the call and
\* comp_distances the local distances[0][1:]
find_player_comps(stats, player_name, feature_cols, neighbors) ==
    LET stage == comps_stage(stats, player_name, feature_cols)
    IN  IF stage = "empty"
        THEN [raised |-> FALSE, frame |-> EmptyFrame, stats |-> stats,
              comp_distances |-> <<>>]
        ELSE IF stage = "raise"
        THEN [raised |-> TRUE, frame |-> EmptyFrame,
              stats |-> stats_after_fillna(stats, feature_cols),
              comp_distances |-> <<>>]
        ELSE
            LET comp_indices == Tail(neighbors.indices)
                comp_d2 == Tail(neighbors.distances)
            IN  [raised |-> FALSE,
                 frame |->
                    [cols |-> stats.cols \cup {"SimilarityScore"},
                     rows |-> [k \in 1 .. Len(comp_indices) |->
                                 [SimilarityScore |->
                                     similarity_score(comp_d2[k], comp_d2)]
                                 @@ stats.rows[comp_indices[k]]]],
                 stats |-> stats_after_fillna(stats, feature_cols),
                 comp_distances |-> comp_d2]

(***************************************************************************)
(* src/data_loader.py: _clean_league_stats (the method of the same name in *)
(* src/services/nba/nba_data_loader.py is the same code).                  *)
(*                                                                         *)
(* A raw table is [labels, rows]: the column labels in order, which after  *)
(* rename may hold a label twice, and one sequence of cells per row.  A    *)
(* cell is a float, or Text, anything that is no number.                   *)
(***************************************************************************)
Text == <<"n/a">>

\* rename_map, applied to one label
rename_label(label) ==
    IF label = "PLAYER_NAME" THEN "Player"
    ELSE IF label = "TEAM_ABBREVIATION" THEN "Team"
    ELSE IF label = "PTS" THEN "Points"
    ELSE IF label = "AST" THEN "Assists"
    ELSE IF label = "REB" THEN "Rebounds"
    ELSE IF label = "USG_PCT" THEN "UsageRate"
    ELSE IF label = "TS_PCT" THEN "TrueShootingPct"
    ELSE label

metric_cols == <<"Points", "Assists", "Rebounds", "UsageRate", "TrueShootingPct">>

\* pd.to_numeric(errors="coerce") on one cell
to_numeric(cell) == IF cell = Text THEN NaN ELSE cell

\* cleaned[col] = 0.0
metric_default == Num(0)

\* the positions of the columns labelled col
Positions(table, col) == {k \in 1 .. Len(table.labels) : table.labels[k] = col}

\* table[col] = values, one per row, for a label the table holds at most
\* once: the column is overwritten where it is, or added at the end
Assign(table, col, values) ==
    IF Positions(table, col) = {}
    THEN [labels |-> Append(table.labels, col),
          rows |-> Tabulated([r \in 1 .. Len(table.rows) |->
                                 Append(table.rows[r], values[r])], Len(table.rows))]
    ELSE [labels |-> table.labels,
          rows |-> Tabulated([r \in 1 .. Len(table.rows) |->
                                 Tabulated([k \in 1 .. Len(table.labels) |->
                                              IF table.labels[k] = col THEN values[r]
                                              ELSE table.rows[r][k]],
                                           Len(table.labels))],
                             Len(table.rows))]

\* cleaned.rename(columns=rename_map)
renamed(data) ==
    [labels |-> Tabulated([k \in 1 .. Len(data.labels) |-> rename_label(data.labels[k])],
                          Len(data.labels)),
     rows |-> data.rows]

\* one pass of the loop over metric_cols: the column made numeric, or added
\* with the default
clean_metric(table, col) ==
    IF Positions(table, col) = {}
    THEN Assign(table, col, [r \in 1 .. Len(table.rows) |-> metric_default])
    ELSE LET k == CHOOSE p \in Positions(table, col) : TRUE
             Numeric == [r \in 1 .. Len(table.rows) |-> to_numeric(table.rows[r][k])]
         IN  Assign(table, col, Numeric)

RECURSIVE clean_metrics(_, _)
\* the loop over the first n metric columns
clean_metrics(table, n) ==
    IF n = 0 THEN table ELSE clean_metric(clean_metrics(table, n - 1), metric_cols[n])

\* _clean_league_stats(data, season), now being datetime.utcnow():
\* [raised, table].  With a label twice after the rename, cleaned[col] is a
\* table of two columns and pd.to_numeric raises TypeError.
clean_league_stats(data, season, now) ==
    LET cleaned == renamed(data)
    IN  IF \E n \in 1 .. Len(metric_cols) :
              Cardinality(Positions(cleaned, metric_cols[n])) > 1
        THEN [raised |-> TRUE, table |-> [labels |-> <<>>, rows |-> <<>>]]
        ELSE LET Season == [r \in 1 .. Len(data.rows) |-> season]
                 LastUpdated == [r \in 1 .. Len(data.rows) |-> now]
             IN  [raised |-> FALSE,
                  table |-> Assign(Assign(clean_metrics(cleaned, Len(metric_cols)),
                                          "Season", Season),
                                   "LastUpdated", LastUpdated)]

(***************************************************************************)
(* src/config/sport_config.py: SportConfig;                                *)
(* src/services/shared/data_loader_factory.py: DataLoaderFactory.          *)
(* A sport string is the sequence of its characters.  A config is known by *)
(* its "name" and "display_name" entries, a loader by its class.           *)
(***************************************************************************)
NBA == <<"N", "B", "A">>
NHL == <<"N", "H", "L">>

\* SportConfig.get_available_sports()
get_available_sports == <<NBA, NHL>>

\* SportConfig.get_sport_config(sport): [raised, value]
get_sport_config(sport) ==
    IF sport = NBA
    THEN [raised |-> FALSE, value |-> [name |-> NBA, display_name |-> "NBA Basketball"]]
    ELSE IF sport = NHL
    THEN [raised |-> FALSE, value |-> [name |-> NHL, display_name |-> "NHL Hockey"]]
    ELSE [raised |-> TRUE, value |-> "ValueError"]

\* a plausible slip: the factory not yet taught the second sport
create_loader_nba_only(sport) ==
    IF sport = NBA
    THEN [raised |-> FALSE, value |-> [class |-> "NBADataLoader"]]
    ELSE [raised |-> TRUE, value |-> "ValueError"]

\* DataLoaderFactory.create_loader(sport): [raised, value].  Both loader
\* classes define every abstract method of BaseDataLoader, so both
\* constructors succeed.
create_loader(sport) ==
    IF sport = NBA
    THEN [raised |-> FALSE, value |-> [class |-> "NBADataLoader"]]
    ELSE IF sport = NHL
    THEN [raised |-> FALSE, value |-> [class |-> "NHLDataLoader"]]
    ELSE [raised |-> TRUE, value |-> "ValueError"]

(***************************************************************************)
(* src/data_loader.py: the fetch functions.  What the remote side does is  *)
(* an input of the call: whether nba_api is installed, whether the request *)
(* raises, and the payload it answers with.                                *)
(***************************************************************************)
\* pd.DataFrame()
EmptyTable == [labels |-> <<>>, rows |-> <<>>]

\* the cells of a raw game log: a date string that parses to day d, a
\* matchup string of a home ("vs.") or an away ("@") game
DateText(d) == <<"date", d>>
HomeMatchup == <<"LAL vs. BOS">>
AwayMatchup == <<"LAL @ BOS">>

\* pd.to_datetime(format="%Y-%m-%d", errors="coerce") on one cell
to_datetime(cell) == IF Len(cell) = 2 /\ cell[1] = "date" THEN cell[2] ELSE NaT

\* _clean_game_log(data)
clean_game_log(data) ==
    LET dated ==
            IF Positions(data, "GAME_DATE") = {} THEN data
            ELSE LET k == CHOOSE p \in Positions(data, "GAME_DATE") : TRUE
                     Parsed == [r \in 1 .. Len(data.rows) |-> to_datetime(data.rows[r][k])]
                 IN  Assign(data, "GAME_DATE", Parsed)
        numeric ==
            IF Positions(dated, "PTS") = {} THEN dated
            ELSE LET k == CHOOSE p \in Positions(dated, "PTS") : TRUE
                     Numeric == [r \in 1 .. Len(data.rows) |-> to_numeric(dated.rows[r][k])]
                 IN  Assign(dated, "PTS", Numeric)
    IN  IF Positions(numeric, "MATCHUP") = {} THEN numeric
        ELSE LET k == CHOOSE p \in Positions(numeric, "MATCHUP") : TRUE
                 IsHome == [r \in 1 .. Len(data.rows) |-> numeric.rows[r][k] = HomeMatchup]
             IN  Assign(numeric, "IS_HOME", IsHome)

\* the five NBA fetch functions share their frame: no client, or a request
\* that raises, gives pd.DataFrame(); otherwise the payload is cleaned
\* outside the try block.  [raised, table]
nba_fetch(available, request, cleaned) ==
    IF ~available THEN [raised |-> FALSE, table |-> EmptyTable]
    ELSE IF request = "raises" THEN [raised |-> FALSE, table |-> EmptyTable]
    ELSE cleaned

\* list_active_players(), list_active_teams(): pd.DataFrame(data)
list_active(available, request, data) ==
    nba_fetch(available, request, [raised |-> FALSE, table |-> data])

\* load_player_game_log(...), load_team_game_log(...)
load_game_log(available, request, data) ==
    nba_fetch(available, request, [raised |-> FALSE, table |-> clean_game_log(data)])

\* load_league_player_stats(season, ...)
load_league_player_stats(available, request, data, season, now) ==
    nba_fetch(available, request, clean_league_stats(data, season, now))

\* the value of team_record.get(key, 0): an entry is <<>> when the key is
\* missing and <<v>> when it holds v
GetOrZero(entry) == IF entry = <<>> THEN 0 ELSE entry[1]

RECURSIVE Flatten(_)
\* the rows of all records, record after record
Flatten(lists) == IF lists = <<>> THEN <<>> ELSE Head(lists) \o Flatten(Tail(lists))

\* load_nhl_standings(): the request fails (RequestException, caught), or
\* the body is no JSON (response.json() raises outside the try), or the
\* payload is read; payload.records is a list of lists of team records
\* <<goalsScored, goalsAgainst>>, read as [] when payload.present is FALSE
load_nhl_standings(request, payload) ==
    IF request = "raises" THEN [raised |-> FALSE, table |-> EmptyTable]
    ELSE IF request = "not_json" THEN [raised |-> TRUE, table |-> EmptyTable]
    ELSE LET records == IF payload.present THEN payload.records ELSE <<>>
             RowsOf(record) ==
                 Tabulated([t \in 1 .. Len(record) |->
                               <<GetOrZero(record[t][1]) - GetOrZero(record[t][2])>>],
                           Len(record))
             rows == Flatten(Tabulated([i \in 1 .. Len(records) |-> RowsOf(records[i])],
                                       Len(records)))
         IN  [raised |-> FALSE,
              table |-> IF rows = <<>> THEN EmptyTable
                        ELSE [labels |-> <<"GoalDiff">>, rows |-> rows]]

RECURSIVE team_stats_rows(_, _)
\* the loop of load_nhl_team_stats over the first n teams: the rows so far,
\* and whether team.get("teamStats", [])[0] met an empty list (IndexError).
\* A team is "no_teamStats", "empty_teamStats", "no_splits" or "stats".
team_stats_rows(teams, n) ==
    IF n = 0 THEN [error |-> FALSE, rows |-> <<>>]
    ELSE LET before == team_stats_rows(teams, n - 1)
         IN  IF before.error THEN before
             ELSE IF teams[n] \in {"no_teamStats", "empty_teamStats"}
                  THEN [error |-> TRUE, rows |-> before.rows]
             ELSE IF teams[n] = "no_splits" THEN before
             ELSE [error |-> FALSE, rows |-> Append(before.rows, <<n>>)]

\* load_nhl_team_stats(); payload.teams is read as [] when payload.present
\* is FALSE
load_nhl_team_stats(request, payload) ==
    IF request = "raises" THEN [raised |-> FALSE, table |-> EmptyTable]
    ELSE IF request = "not_json" THEN [raised |-> TRUE, table |-> EmptyTable]
    ELSE LET teams == IF payload.present THEN payload.teams ELSE <<>>
             loop == team_stats_rows(teams, Len(teams))
         IN  IF loop.error THEN [raised |-> TRUE, table |-> EmptyTable]
             ELSE [raised |-> FALSE,
                   table |-> IF loop.rows = <<>> THEN EmptyTable
                             ELSE [labels |-> <<"Team">>, rows |-> loop.rows]]

(***************************************************************************)
(* The calls.                                                              *)
(***************************************************************************)
Init ==
    /\ pc = "idle"
    /\ op = "none"
    /\ args = <<>>
    /\ ret = <<>>
    /\ raised = FALSE
    /\ caller_table = <<>>
    /\ comp_distances = <<>>
    /\ assigned = {}

RestDaysInputs == (-NegRestDays) .. MaxRestDays
MinutesInputs == {NaN} \cup {Frac(h, 2) : h \in (-NegMinuteHalves) .. MaxMinuteHalves}

CallFatigue ==
    /\ pc = "idle"
    /\ \E r \in RestDaysInputs, h \in BOOLEAN, m \in MinutesInputs :
          /\ args' = [rest_days |-> r, is_home |-> h, minutes_last_game |-> m]
          /\ ret' = calculate_fatigue_score(r, h, m)
    /\ op' = "calculate_fatigue_score"
    /\ caller_table' = <<>>
    /\ comp_distances' = <<>>
    /\ raised' = FALSE
    /\ pc' = "done"
    /\ assigned' = assigned

ClampBounds == {Frac(h, 2) : h \in (-ClampRange) .. ClampRange}
ClampValues == {NaN} \cup ClampBounds
ClampDefaultValues == {NaN} \cup {Frac(h, 2) : h \in (-NegMinuteHalves) .. MaxDefaultHalves}

\* clamp(value, lower, upper) with all three arguments given
CallClamp ==
    /\ pc = "idle"
    /\ \E v \in ClampValues, lo \in ClampBounds, hi \in ClampBounds :
          /\ args' = [value |-> v, lower |-> lo, upper |-> hi, defaults |-> FALSE]
          /\ ret' = clamp(v, lo, hi)
    /\ op' = "clamp"
    /\ caller_table' = <<>>
    /\ comp_distances' = <<>>
    /\ raised' = FALSE
    /\ pc' = "done"
    /\ assigned' = assigned

\* clamp(value): lower and upper take their defaults
CallClampDefault ==
    /\ pc = "idle"
    /\ \E v \in ClampDefaultValues :
          /\ args' = [value |-> v, lower |-> Num(ClampDefaultLower),
                      upper |-> Num(ClampDefaultUpper), defaults |-> TRUE]
          /\ ret' = clamp(v, Num(ClampDefaultLower), Num(ClampDefaultUpper))
    /\ op' = "clamp"
    /\ caller_table' = <<>>
    /\ comp_distances' = <<>>
    /\ raised' = FALSE
    /\ pc' = "done"
    /\ assigned' = assigned

\* every sequence over S of length 0 .. n
SeqsUpTo(S, n) == UNION {[1 .. k -> S] : k \in 0 .. n}

MeanValues == {NaN} \cup {Num(v) : v \in 0 .. MaxMeanVal}

CallSafeMean ==
    /\ pc = "idle"
    /\ \E values \in SeqsUpTo(MeanValues, MaxLen) :
          /\ args' = [values |-> values]
          /\ ret' = safe_mean(values).value
          /\ raised' = safe_mean(values).raised
    /\ op' = "safe_mean"
    /\ caller_table' = <<>>
    /\ comp_distances' = <<>>
    /\ pc' = "done"
    /\ assigned' = assigned

RollValues == {NaN} \cup {Num(10 * t) : t \in 0 .. MaxRollTens}

CallRollingAverage ==
    /\ pc = "idle"
    /\ \E series \in SeqsUpTo(RollValues, MaxLen), window \in 1 .. MaxWindow :
          /\ args' = [series |-> series, window |-> window]
          /\ ret' = compute_rolling_average(series, window)
    /\ op' = "compute_rolling_average"
    /\ caller_table' = <<>>
    /\ comp_distances' = <<>>
    /\ raised' = FALSE
    /\ pc' = "done"
    /\ assigned' = assigned

\* the game logs handed to build_prop_validator: with or without the
\* GAME_DATE and PTS columns, dates possibly missing, PTS possibly missing
DateInputs == {NaT, 1, 2}
PtsInputs == {NaN, Num(0), Num(4), Num(6)}
ColumnSets == SUBSET {"GAME_DATE", "PTS"}

\* the cells of one row: a date and a PTS value, each used only if its
\* column exists
CellInputs(cols) ==
    (IF "GAME_DATE" \in cols THEN DateInputs ELSE {NaT})
        \X (IF "PTS" \in cols THEN PtsInputs ELSE {NaN})

\* the row with index label i and the cells of the columns that exist
MakeRow(cols, i, cell) ==
    [c \in cols \cup {"idx"} |->
        IF c = "idx" THEN i ELSE IF c = "GAME_DATE" THEN cell[1] ELSE cell[2]]

\* the game log with the given columns and one row per entry of cells
MakeLog(cols, cells) ==
    [cols |-> cols, rows |-> [i \in 1 .. Len(cells) |-> MakeRow(cols, i, cells[i])]]

StatCols == {"PTS", "AST"}

CallPropValidator ==
    /\ pc = "idle"
    /\ \E cols \in ColumnSets, n \in 0 .. MaxRows, stat_col \in StatCols :
          \E cells \in [1 .. n -> CellInputs(cols)] :
             \E game_log \in {MakeLog(cols, cells)} :
                \E order \in (IF "GAME_DATE" \in cols
                              THEN SortOrders(game_log) ELSE {InputOrder(game_log)}) :
                   \E result \in {build_prop_validator(game_log, stat_col, order)} :
                      /\ args' = [game_log |-> game_log, stat_col |-> stat_col]
                      /\ ret' = result.frame
                      /\ raised' = result.raised
                      /\ caller_table' = result.game_log
                      /\ comp_distances' = <<>>
    /\ op' = "build_prop_validator"
    /\ pc' = "done"
    /\ assigned' = assigned

\* the call itself, for a given game log
PropValidator(game_log, stat_col) ==
    /\ \E order \in (IF "GAME_DATE" \in game_log.cols
                     THEN SortOrders(game_log) ELSE {InputOrder(game_log)}) :
          \E result \in {build_prop_validator(game_log, stat_col, order)} :
             /\ args' = [game_log |-> game_log, stat_col |-> stat_col]
             /\ ret' = result.frame
             /\ raised' = result.raised
             /\ caller_table' = result.game_log
             /\ comp_distances' = <<>>
    /\ op' = "build_prop_validator"
    /\ pc' = "done"
    /\ assigned' = assigned

\* game logs longer than the rolling window, every PTS present, the dates
\* all different and supplied in date order, in reverse, rotated by two, or
\* not at all (no GAME_DATE column)
LongPts == {Num(0), Num(5), Num(13)}
DateOrders == {"none", "ascending", "descending", "rotated"}
DateOf(how, i, n) ==
    IF how = "ascending" THEN i
    ELSE IF how = "descending" THEN n + 1 - i
    ELSE ((i + 1) % n) + 1

MakeLongLog(how, pts) ==
    LET cols == IF how = "none" THEN {"PTS"} ELSE {"GAME_DATE", "PTS"}
    IN  MakeLog(cols, [i \in 1 .. Len(pts) |-> <<DateOf(how, i, Len(pts)), pts[i]>>])

\* build_prop_validator on a game log longer than its window
CallPropValidatorLong ==
    /\ pc = "idle"
    /\ \E n \in RollingWindow + 1 .. MaxLongRows, how \in DateOrders :
          \E pts \in [1 .. n -> LongPts] :
             \E game_log \in {MakeLongLog(how, pts)} :
                PropValidator(game_log, "PTS")

\* short game logs whose PTS values may be negative, as a plus-minus is
SignedPts == {Num(-4), Num(0), Num(4)}

\* build_prop_validator on a game log with values of either sign
CallPropValidatorSigned ==
    /\ pc = "idle"
    /\ \E n \in 0 .. MaxRows, how \in {"none", "ascending", "descending"} :
          \E pts \in [1 .. n -> SignedPts \cup {NaN}] :
             \E game_log \in {MakeLongLog(how, pts)} :
                PropValidator(game_log, "PTS")

\* the league tables handed to find_player_comps: one row per player, named
\* by position, with a pair <<PTS, AST>> of values, PTS possibly missing
PlayerNames == <<"P1", "P2", "P3", "P4", "P5", "P6", "P7">>
LeagueCells == {<<NaN, Num(0)>>, <<Num(0), Num(0)>>, <<Num(2), Num(0)>>,
                <<Num(2), Num(1)>>}
LeagueColumns == {"Player", "PTS", "AST"}

\* the league table with the given columns and one row per entry of cells
MakeLeague(cols, cells) ==
    [cols |-> cols,
     rows |-> [i \in 1 .. Len(cells) |->
                 [c \in cols \cup {"idx"} |->
                     IF c = "idx" THEN i
                     ELSE IF c = "Player" THEN PlayerNames[i]
                     ELSE IF c = "PTS" THEN cells[i][1] ELSE cells[i][2]]]]

\* what kneighbors can return, nothing where it is not reached
NoNeighbors == [indices |-> <<>>, distances |-> <<>>]
NeighborChoices(stats, player_name, feature_cols) ==
    IF comps_stage(stats, player_name, feature_cols) = "query"
    THEN NeighborLists(QueryDistances(stats, player_name, feature_cols))
    ELSE {NoNeighbors}

\* the call itself, for given arguments
FindPlayerComps(stats, player_name, feature_cols) ==
    /\ \E neighbors \in NeighborChoices(stats, player_name, feature_cols) :
          LET result == find_player_comps(stats, player_name, feature_cols, neighbors)
          IN  /\ args' = [stats |-> stats, player_name |-> player_name,
                          feature_cols |-> feature_cols]
              /\ ret' = result.frame
              /\ raised' = result.raised
              /\ caller_table' = result.stats
              /\ comp_distances' = result.comp_distances
    /\ op' = "find_player_comps"
    /\ pc' = "done"
    /\ assigned' = assigned

\* find_player_comps on a full league table with both features, for the
\* first player of the table or for a name no row carries
CallFindPlayerComps ==
    /\ pc = "idle"
    /\ \E n \in 0 .. MaxPlayers, player_name \in {"P1", "Nobody"} :
          \E cells \in [1 .. n -> LeagueCells] :
             \E stats \in {MakeLeague(LeagueColumns, cells)} :
                FindPlayerComps(stats, player_name, <<"PTS", "AST">>)

\* find_player_comps on other well-typed arguments: a table without the
\* Player column or without a feature column, one feature, no feature, on
\* tables of up to NNeighbors rows, the least kneighbors accepts
CallFindPlayerCompsOther ==
    /\ pc = "idle"
    /\ \E n \in 0 .. NNeighbors, player_name \in {"P1", "Nobody"},
          cols \in {LeagueColumns, {"PTS", "AST"}, {"Player", "PTS"}, {"Player"}, {}},
          feature_cols \in {<<>>, <<"PTS">>, <<"PTS", "AST">>} :
          /\ ~(cols = LeagueColumns /\ feature_cols = <<"PTS", "AST">>)
          /\ \E cells \in [1 .. n -> {c \in LeagueCells : c[2] = Num(0)}] :
                \E stats \in {MakeLeague(cols, cells)} :
                   FindPlayerComps(stats, player_name, feature_cols)

\* the source tables handed to _clean_league_stats: any of these columns, in
\* this order, and in each row one cell value throughout
SourceLabels == <<"PTS", "Points", "AST", "Rebounds", "Season">>
SourceCells == {Num(7), NaN, Text}
Seasons == {"2023-24", "2024-25"}
Clock == {1, 2}

MakeSource(present, cells) ==
    LET labels == SelectSeq(SourceLabels, LAMBDA l : l \in present)
    IN  [labels |-> labels,
         rows |-> Tabulated([r \in 1 .. Len(cells) |->
                                Tabulated([k \in 1 .. Len(labels) |-> cells[r]],
                                          Len(labels))], Len(cells))]

CallCleanLeagueStats ==
    /\ pc = "idle"
    /\ \E present \in SUBSET {SourceLabels[k] : k \in 1 .. Len(SourceLabels)},
          n \in 0 .. MaxLeagueRows, season \in Seasons, now \in Clock :
          \E cells \in [1 .. n -> SourceCells] :
             \E data \in {MakeSource(present, cells)} :
                \E result \in {clean_league_stats(data, season, now)} :
                   /\ args' = [data |-> data, season |-> season]
                   /\ ret' = result.table
                   /\ raised' = result.raised
                   /\ caller_table' = data
                   /\ comp_distances' = <<>>
    /\ op' = "_clean_league_stats"
    /\ pc' = "done"
    /\ assigned' = assigned

\* the sport strings handed to the config and the factory: every string of
\* up to MaxSportLen of these characters
SportChars == {"N", "B", "A", "H", "L", "n", "b", "a"}
SportStrings == UNION {[1 .. n -> SportChars] : n \in 0 .. MaxSportLen}

CallGetSportConfig ==
    /\ pc = "idle"
    /\ \E sport \in SportStrings :
          \E result \in {get_sport_config(sport)} :
             /\ args' = [sport |-> sport]
             /\ ret' = result.value
             /\ raised' = result.raised
    /\ op' = "get_sport_config"
    /\ pc' = "done"
    /\ assigned' = assigned
    /\ caller_table' = <<>>
    /\ comp_distances' = <<>>

CallCreateLoader ==
    /\ pc = "idle"
    /\ \E sport \in SportStrings :
          \E result \in {create_loader(sport)} :
             /\ args' = [sport |-> sport]
             /\ ret' = result.value
             /\ raised' = result.raised
    /\ op' = "create_loader"
    /\ pc' = "done"
    /\ assigned' = assigned
    /\ caller_table' = <<>>
    /\ comp_distances' = <<>>

NextFatigue == CallFatigue
SpecFatigue == Init /\ [][NextFatigue]_vars

NextClamp == CallClamp \/ CallClampDefault
SpecClamp == Init /\ [][NextClamp]_vars

NextMean == CallSafeMean
SpecMean == Init /\ [][NextMean]_vars

NextRolling == CallRollingAverage
SpecRolling == Init /\ [][NextRolling]_vars

NextProp == CallPropValidator
SpecProp == Init /\ [][NextProp]_vars

NextComps == CallFindPlayerComps \/ CallFindPlayerCompsOther
SpecComps == Init /\ [][NextComps]_vars

\* what the NBA client can do: answer, or raise inside the try block
NbaRequests == {"raises", "data"}
\* what the NHL request can do: raise a RequestException, answer with a body
\* that is no JSON, answer with a JSON payload
NhlRequests == {"raises", "not_json", "json"}

\* the payload of get_active_players() / get_active_teams(): n dictionaries
ActiveList(n) ==
    [labels |-> IF n = 0 THEN <<>> ELSE <<"id", "full_name">>,
     rows |-> [r \in 1 .. n |-> <<r, <<"name">>>>]]

CallListActive ==
    /\ pc = "idle"
    /\ \E fn \in {"list_active_players", "list_active_teams"},
          available \in BOOLEAN, request \in NbaRequests, n \in 0 .. MaxLeagueRows :
          \E result \in {list_active(available, request, ActiveList(n))} :
             /\ args' = [available |-> available, request |-> request,
                         payload |-> ActiveList(n)]
             /\ ret' = result.table
             /\ raised' = result.raised
             /\ op' = fn
    /\ caller_table' = <<>>
    /\ comp_distances' = <<>>
    /\ pc' = "done"
    /\ assigned' = assigned

\* raw game logs: any of the three columns, every cell well-formed or not
GameLogLabels == <<"GAME_DATE", "PTS", "MATCHUP">>
GameLogRows ==
    {<<date, pts, matchup>> : date \in {DateText(1), DateText(2), Text},
                              pts \in {Num(7), Text},
                              matchup \in {HomeMatchup, AwayMatchup}}

MakeGameLog(present, cells) ==
    LET kept == SelectSeq(<<1, 2, 3>>, LAMBDA k : GameLogLabels[k] \in present)
    IN  [labels |-> Tabulated([k \in 1 .. Len(kept) |-> GameLogLabels[kept[k]]], Len(kept)),
         rows |-> Tabulated([r \in 1 .. Len(cells) |->
                                Tabulated([k \in 1 .. Len(kept) |-> cells[r][kept[k]]],
                                          Len(kept))], Len(cells))]

CallLoadGameLog ==
    /\ pc = "idle"
    /\ \E fn \in {"load_player_game_log", "load_team_game_log"},
          available \in BOOLEAN, request \in NbaRequests,
          present \in SUBSET {"GAME_DATE", "PTS", "MATCHUP"}, n \in 0 .. MaxLeagueRows :
          \E cells \in [1 .. n -> GameLogRows] :
             \E data \in {MakeGameLog(present, cells)} :
                \E result \in {load_game_log(available, request, data)} :
                   /\ args' = [available |-> available, request |-> request,
                               payload |-> data]
                   /\ ret' = result.table
                   /\ raised' = result.raised
                   /\ op' = fn
    /\ caller_table' = <<>>
    /\ comp_distances' = <<>>
    /\ pc' = "done"
    /\ assigned' = assigned

CallLoadLeaguePlayerStats ==
    /\ pc = "idle"
    /\ \E available \in BOOLEAN, request \in NbaRequests,
          present \in SUBSET {SourceLabels[k] : k \in 1 .. Len(SourceLabels)},
          n \in 0 .. MaxLeagueRows, season \in Seasons, now \in Clock :
          \E cells \in [1 .. n -> SourceCells] :
             \E data \in {MakeSource(present, cells)} :
                \E result \in {load_league_player_stats(available, request, data,
                                                        season, now)} :
                   /\ args' = [available |-> available, request |-> request,
                               payload |-> data, season |-> season]
                   /\ ret' = result.table
                   /\ raised' = result.raised
    /\ op' = "load_league_player_stats"
    /\ caller_table' = <<>>
    /\ comp_distances' = <<>>
    /\ pc' = "done"
    /\ assigned' = assigned

\* standings payloads: up to MaxRecords records of up to MaxTeams team
\* records, each with or without its two goal counts
GoalEntries == {<<>>, <<3>>}
TeamRecords == GoalEntries \X GoalEntries
StandingsRecords == UNION {[1 .. m -> TeamRecords] : m \in 0 .. MaxTeams}

CallLoadNhlStandings ==
    /\ pc = "idle"
    /\ \E request \in NhlRequests, present \in BOOLEAN, n \in 0 .. MaxRecords :
          \E records \in [1 .. n -> StandingsRecords] :
             \E payload \in {[present |-> present, records |-> records]} :
                \E result \in {load_nhl_standings(request, payload)} :
                   /\ args' = [request |-> request, payload |-> payload]
                   /\ ret' = result.table
                   /\ raised' = result.raised
    /\ op' = "load_nhl_standings"
    /\ caller_table' = <<>>
    /\ comp_distances' = <<>>
    /\ pc' = "done"
    /\ assigned' = assigned

\* team-stats payloads: up to MaxTeams teams, each without a teamStats key,
\* with an empty teamStats list, with no splits, or with one split
TeamShapes == {"no_teamStats", "empty_teamStats", "no_splits", "stats"}

CallLoadNhlTeamStats ==
    /\ pc = "idle"
    /\ \E request \in NhlRequests, present \in BOOLEAN, n \in 0 .. MaxTeams :
          \E teams \in [1 .. n -> TeamShapes] :
             \E payload \in {[present |-> present, teams |-> teams]} :
                \E result \in {load_nhl_team_stats(request, payload)} :
                   /\ args' = [request |-> request, payload |-> payload]
                   /\ ret' = result.table
                   /\ raised' = result.raised
    /\ op' = "load_nhl_team_stats"
    /\ caller_table' = <<>>
    /\ comp_distances' = <<>>
    /\ pc' = "done"
    /\ assigned' = assigned

NextFetch ==
    \/ CallListActive
    \/ CallLoadGameLog
    \/ CallLoadLeaguePlayerStats
    \/ CallLoadNhlStandings
    \/ CallLoadNhlTeamStats
SpecFetch == Init /\ [][NextFetch]_vars

(***************************************************************************)
(* src/app.py: one run of the dashboard script, block by block.  What the  *)
(* remote side and the user give the run is chosen when it starts and kept *)
(* in args.  A block reads names and binds names; reading a name that is   *)
(* not bound raises NameError and ends the run, st.stop() ends it too.     *)
(* The reads of a block are those of names the block has not bound itself  *)
(* on the path taken.                                                      *)
(***************************************************************************)
\* what a run is given: the sport picked, whether each fetched table is
\* empty, whether the ids resolve, what the latest game's date is, whether
\* the player has a row in the league table
Runs ==
    [sport : {NBA, NHL},
     teams_empty : BOOLEAN, players_empty : BOOLEAN,
     player_found : BOOLEAN, team_found : BOOLEAN,
     player_log_empty : BOOLEAN, league_stats_empty : BOOLEAN,
     team_log_empty : BOOLEAN, game_date : {"valid", "NaT", "invalid"}]

\* the names bound by lines 1-93: the cached loaders
Loaders ==
    {"load_active_players", "load_active_teams", "load_league_stats",
     "load_player_log", "load_team_log"}

\* one block: NameError on a read of an unbound name, else bind and go on
Block(label, reads, writes, next) ==
    /\ pc = label
    /\ IF reads \subseteq assigned
       THEN /\ assigned' = assigned \cup writes
            /\ raised' = FALSE
            /\ IF next \in {"stopped", "finished"}
               THEN pc' = "done" /\ ret' = [outcome |-> next, names |-> {}]
               ELSE pc' = next /\ ret' = ret
       ELSE /\ assigned' = assigned
            /\ raised' = TRUE
            /\ pc' = "done"
            /\ ret' = [outcome |-> "NameError", names |-> reads \ assigned]
    /\ UNCHANGED <<op, args, caller_table, comp_distances>>

\* lines 1-93
AppStart ==
    /\ pc = "idle"
    /\ \E run \in Runs : args' = run
    /\ op' = "app.py"
    /\ pc' = "sidebar"
    /\ assigned' = Loaders
    /\ ret' = <<>>
    /\ raised' = FALSE
    /\ caller_table' = <<>>
    /\ comp_distances' = <<>>

\* lines 97-147
Sidebar ==
    /\ pc = "sidebar"
    /\ LET settings == {"available_sports", "sport_labels", "selected_sport_label",
                        "sport", "sport_config", "seasons", "season", "teams_df"}
           team == settings \cup {"team_name", "players_df"}
       IN  IF args.teams_empty
           THEN Block("sidebar", {"load_active_teams"}, settings, "stopped")
           ELSE IF args.sport = NHL /\ args.players_empty
           THEN Block("sidebar", {"load_active_teams", "load_active_players"},
                      team \cup {"player_name"}, "hero")
           ELSE IF args.players_empty
           THEN Block("sidebar", {"load_active_teams", "load_active_players"},
                      team, "stopped")
           ELSE Block("sidebar", {"load_active_teams", "load_active_players"},
                      team \cup {"player_name"}, "hero")

\* lines 151-166
Hero ==
    /\ pc = "hero"
    /\ Block("hero", {"sport", "sport_config"}, {}, "ids")

\* lines 170-177
ResolveIds ==
    /\ pc = "ids"
    /\ Block("ids", {"sport", "player_name", "team_name"},
             IF args.sport = NBA THEN {"player_id", "team_id"}
             ELSE {"player_id", "loader", "team_id"},
             "nhl_demo")

\* lines 181-228
NhlDemo ==
    /\ pc = "nhl_demo"
    /\ IF args.sport = NHL
       THEN Block("nhl_demo", {"sport", "team_name", "team_id", "season"},
                  {"col1", "col2", "col3", "col4"}, "stopped")
       ELSE Block("nhl_demo", {"sport"}, {}, "load")

\* lines 232-245; on this path sport is NBA, player_id is
\* data_loader.get_player_id(player_name)
LoadData ==
    /\ pc = "load"
    /\ IF ~args.player_found
       THEN Block("load", {"player_id"}, {}, "stopped")
       ELSE Block("load",
                  {"player_id", "sport", "season", "team_id", "load_player_log",
                   "load_league_stats"}
                     \cup (IF args.team_found THEN {"load_team_log"} ELSE {}),
                  {"player_log", "league_stats", "team_log"}, "metrics")

\* lines 249-271
Metrics ==
    /\ pc = "metrics"
    /\ LET both == {"metrics_cols", "points_avg", "assists_avg", "rebounds_avg",
                    "minutes_avg", "points_delta", "assists_delta", "rebounds_delta",
                    "minutes_delta"}
           recent == {"recent_points", "recent_assists", "recent_rebounds",
                      "recent_minutes"}
       IN  Block("metrics", {"player_log"},
                 IF args.player_log_empty THEN both ELSE both \cup recent, "fatigue")

\* lines 274-318; team_log is pd.DataFrame() unless team_id resolved
FatiguePanel ==
    /\ pc = "fatigue"
    /\ LET panel == {"left_col", "right_col", "fatigue_score", "gauge"}
           latest == {"latest_game", "game_date", "rest_days", "fatigue_inputs"}
       IN  IF ~args.team_found \/ args.team_log_empty
           THEN Block("fatigue", {"team_log"}, panel, "prop")
           ELSE Block("fatigue", {"team_log", "minutes_avg"},
                      panel \cup latest
                         \cup (IF args.game_date = "valid" THEN {"game_date_ts"} ELSE {}),
                      "prop")

\* lines 320-338
PropPanel ==
    /\ pc = "prop"
    /\ Block("prop", {"right_col", "player_log"},
             IF args.player_log_empty THEN {"prop_data"}
             ELSE {"prop_data", "display_cols", "prop_table", "highlight_signal",
                   "styled"},
             "trends_tab")

\* lines 343-376
TrendsTab ==
    /\ pc = "trends_tab"
    /\ LET tabs == {"trends_tab", "advanced_tab", "analytics_tab", "comparisons_tab"}
       IN  IF args.player_log_empty
           THEN Block("trends_tab", {"player_log"}, tabs, "advanced_tab")
           ELSE Block("trends_tab", {"player_log", "player_name", "sport"},
                      tabs \cup {"create_performance_trend_chart",
                                 "create_distribution_chart",
                                 "create_multi_stat_comparison", "trend_fig", "col1",
                                 "col2", "multi_stat_fig", "dist_fig"},
                      "advanced_tab")

\* lines 378-412: `league_stats.empty or not feature_cols` reads feature_cols
\* only when league_stats is not empty
AdvancedTab ==
    /\ pc = "advanced_tab"
    /\ IF args.league_stats_empty
       THEN Block("advanced_tab", {"advanced_tab", "league_stats"}, {}, "analytics_tab")
       ELSE Block("advanced_tab",
                  {"advanced_tab", "league_stats", "feature_cols", "player_name"},
                  {"create_enhanced_radar_chart", "player_row", "league_avg"},
                  "analytics_tab")

\* lines 414-447
AnalyticsTab ==
    /\ pc = "analytics_tab"
    /\ IF args.player_log_empty
       THEN Block("analytics_tab", {"analytics_tab", "player_log"}, {}, "comparisons_tab")
       ELSE Block("analytics_tab",
                  {"analytics_tab", "player_log", "player_name", "sport", "points_avg"},
                  {"create_home_away_comparison", "home_away_fig", "last_5", "last_10",
                   "col1", "col2", "col3", "hot_streak"},
                  "comparisons_tab")

\* lines 449-468
ComparisonsTab ==
    /\ pc = "comparisons_tab"
    /\ Block("comparisons_tab", {"comparisons_tab", "league_stats", "player_name"},
             {"desired_features", "feature_cols", "comps"}, "finished")

NextApp ==
    \/ AppStart
    \/ Sidebar
    \/ Hero
    \/ ResolveIds
    \/ NhlDemo
    \/ LoadData
    \/ Metrics
    \/ FatiguePanel
    \/ PropPanel
    \/ TrendsTab
    \/ AdvancedTab
    \/ AnalyticsTab
    \/ ComparisonsTab
SpecApp == Init /\ [][NextApp]_vars

NextSports == CallGetSportConfig \/ CallCreateLoader
SpecSports == Init /\ [][NextSports]_vars

NextClean == CallCleanLeagueStats
SpecClean == Init /\ [][NextClean]_vars

NextPropLong == CallPropValidatorLong
SpecPropLong == Init /\ [][NextPropLong]_vars

NextPropSigned == CallPropValidatorSigned
SpecPropSigned == Init /\ [][NextPropSigned]_vars

\* the two functions that are handed a table of the caller
NextTables == CallPropValidator \/ CallFindPlayerCompsOther
SpecTables == Init /\ [][NextTables]_vars

Next ==
    \/ CallFatigue
    \/ CallClamp
    \/ CallClampDefault
    \/ CallSafeMean
    \/ CallRollingAverage
    \/ CallPropValidator
    \/ CallPropValidatorLong
    \/ CallPropValidatorSigned
    \/ CallCleanLeagueStats
    \/ CallGetSportConfig
    \/ CallCreateLoader
    \/ CallListActive
    \/ CallLoadGameLog
    \/ CallLoadLeaguePlayerStats
    \/ CallLoadNhlStandings
    \/ CallLoadNhlTeamStats
    \/ AppStart
    \/ Sidebar
    \/ Hero
    \/ ResolveIds
    \/ NhlDemo
    \/ LoadData
    \/ Metrics
    \/ FatiguePanel
    \/ PropPanel
    \/ TrendsTab
    \/ AdvancedTab
    \/ AnalyticsTab
    \/ ComparisonsTab
    \/ CallFindPlayerComps
    \/ CallFindPlayerCompsOther

Spec == Init /\ [][Next]_vars

(***************************************************************************)
(* Claims about calculate_fatigue_score and clamp.  The expected values    *)
(* are written in integer arithmetic over a common denominator, with the   *)
(* textbook three-case clamp, not with the operators above.                *)
(***************************************************************************)
Restrict(x, lo, hi) == IF x < lo THEN lo ELSE IF x > hi THEN hi ELSE x

FatigueCalled == pc = "done" /\ op = "calculate_fatigue_score"

\* C1: for every input (negative rest days, either side, negative or missing
\* minutes included) calculate_fatigue_score returns r with 0 <= r <= 100.
C1_FatigueInRange ==
    FatigueCalled =>
        /\ ~raised
        /\ ret[2] > 0
        /\ 0 <= ret[1]
        /\ ret[1] <= 100 * ret[2]

C1_Witness ==
    /\ FatigueCalled
    /\ args.rest_days < 0
    /\ ~args.is_home
    /\ Lt(Num(RegulationMinutes), args.minutes_last_game)
    /\ ret = Num(100)

\* The score the formula of the claim gives, times 6*d, for minutes n/d:
\* rest = restrict(100 - 15 r), travel = 10 away / 0 home,
\* minutes = restrict(n/d / 48 * 40, 0, 40) = restrict(5n / 6d, 0, 40).
ExpectedFatigueScaled(r, h, n, d) ==
    LET rest == Restrict(100 - 15 * r, 0, 100)
        travel == IF h THEN 0 ELSE 10
        minutes6d == Restrict(5 * n, 0, 40 * 6 * d)
    IN  Restrict((rest + travel) * 6 * d + minutes6d, 0, 100 * 6 * d)

\* C2: the score equals clamp(rest + travel + minutes, 0, 100) with
\* rest = clamp(100 - 15*rest_days, 0, 100), travel = 10 away and 0 home,
\* minutes = clamp(minutes_last_game/48*40, 0, 40) (0 when the minutes are
\* missing, which is what clamp makes of NaN); away, 0 rest days, 48 minutes
\* gives exactly 100.
C2_FatigueFormula ==
    FatigueCalled =>
        LET m == args.minutes_last_game
            n == IF IsNaN(m) THEN 0 ELSE m[1]
            d == IF IsNaN(m) THEN 1 ELSE m[2]
        IN  /\ ret[2] > 0
            /\ ret[1] * 6 * d =
                   ExpectedFatigueScaled(args.rest_days, args.is_home, n, d) * ret[2]
            /\ (args.rest_days = 0 /\ ~args.is_home /\ m = Num(48)) => ret = Num(100)

C2_Witness ==
    /\ FatigueCalled
    /\ args.rest_days = 0
    /\ ~args.is_home
    /\ args.minutes_last_game = Num(48)
    /\ ret = Num(100)

\* C3: for rest_days >= 0, the score of a home game with 0 minutes played is
\* clamp(100 - 15*rest_days, 0, 100): 100 at rest_days = 0, 0 from 7 days on.
C3_HomeRestOnly ==
    (FatigueCalled /\ args.rest_days >= 0 /\ args.is_home
        /\ args.minutes_last_game = Num(0)) =>
        /\ ret = Num(Restrict(100 - 15 * args.rest_days, 0, 100))
        /\ (args.rest_days = 0 => ret = Num(100))
        /\ (args.rest_days >= 7 => ret = Num(0))

C3_Witness ==
    /\ FatigueCalled
    /\ args.rest_days = 10
    /\ args.is_home
    /\ args.minutes_last_game = Num(0)
    /\ ret = Num(0)

ClampCalled == pc = "done" /\ op = "clamp"

\* C4: for lower <= upper, clamp(value, lower, upper) is in [lower, upper], is
\* value itself when lower <= value <= upper, lower when value < lower, upper
\* when value > upper, and never raises; with the bounds omitted they are 0
\* and 100.
C4_ClampContract ==
    ClampCalled =>
        /\ Le(args.lower, args.upper) =>
              /\ ~raised
              /\ Le(args.lower, ret) /\ Le(ret, args.upper)
              /\ (Le(args.lower, args.value) /\ Le(args.value, args.upper))
                    => ret = args.value
              /\ Lt(args.value, args.lower) => ret = args.lower
              /\ Lt(args.upper, args.value) => ret = args.upper
        /\ args.defaults =>
              /\ ~raised
              /\ Le(Num(0), ret) /\ Le(ret, Num(100))
              /\ (Le(Num(0), args.value) /\ Le(args.value, Num(100)))
                    => ret = args.value
              /\ Lt(args.value, Num(0)) => ret = Num(0)
              /\ Lt(Num(100), args.value) => ret = Num(100)

C4_Witness ==
    /\ ClampCalled
    /\ ~args.defaults
    /\ Lt(args.lower, args.upper)
    /\ Lt(args.upper, args.value)
    /\ ret = args.upper

(***************************************************************************)
(* Claims about safe_mean and compute_rolling_average.                     *)
(***************************************************************************)
MeanCalled == pc = "done" /\ op = "safe_mean"

Present(values) == SelectSeq(values, LAMBDA x : x[2] # 0)

RECURSIVE SumNumerators(_)
SumNumerators(values) ==
    IF values = <<>> THEN 0 ELSE Head(values)[1] + SumNumerators(Tail(values))

\* the arithmetic mean of a non-empty sequence of whole numbers, NaN excluded
MeanOfPresent(values) == Frac(SumNumerators(Present(values)), Len(Present(values)))

\* C5: safe_mean returns 0.0, without raising, when the input is empty and
\* when it is non-empty but holds no finite value (every entry missing).
C5_NoValueGivesZero ==
    (MeanCalled /\ Present(args.values) = <<>>) => (~raised /\ ret = Num(0))

\* the part of C5 the code meets: the empty input
C5_EmptyGivesZero ==
    (MeanCalled /\ args.values = <<>>) => (~raised /\ ret = Num(0))

\* C6: with at least one present value, safe_mean is the sum of the present
\* values over their number; missing entries change neither (e.g. [2, 4,
\* missing] gives 3).
C6_MeanOfPresentValues ==
    (MeanCalled /\ Present(args.values) # <<>>) =>
        /\ ~raised
        /\ ret = MeanOfPresent(args.values)
        /\ args.values = <<Num(2), Num(4), NaN>> => ret = Num(3)

C6_Witness ==
    /\ MeanCalled
    /\ args.values = <<Num(2), Num(4), NaN>>
    /\ ret = Num(3)

RollingCalled == pc = "done" /\ op = "compute_rolling_average"

\* the plain arithmetic mean of a window: missing as soon as one entry is
PlainMean(w) ==
    IF Len(Present(w)) < Len(w) THEN NaN ELSE Frac(SumNumerators(w), Len(w))

\* C7 as stated: for every series of length n and window w >= 1 the result
\* has length n, element i is the mean of s[max(0, i-w+1) .. i], and element 0
\* is s[0] itself and is never missing.
C7_RollingAsStated ==
    RollingCalled =>
        /\ Len(ret) = Len(args.series)
        /\ \A i \in 1 .. Len(ret) :
              ret[i] = PlainMean(WindowOf(args.series, i, args.window))
        /\ Len(ret) >= 1 => (ret[1] = args.series[1] /\ ~IsNaN(ret[1]))

\* C7 amended: the result has length n; element i is the mean of the present
\* values among s[max(0, i-w+1) .. i] and is missing exactly when none of them
\* is present; element 0 is s[0] itself (missing only if s[0] is missing); on
\* a series with no missing value every element is the plain mean of its
\* window and none is missing ([10,20,30] with w = 2 gives [10, 15, 25]).
C7_RollingOverPresent ==
    RollingCalled =>
        /\ ~raised
        /\ Len(ret) = Len(args.series)
        /\ \A i \in 1 .. Len(ret) :
              LET w == WindowOf(args.series, i, args.window)
              IN  /\ IsNaN(ret[i]) <=> Present(w) = <<>>
                  /\ Present(w) # <<>> => ret[i] = MeanOfPresent(w)
        /\ Len(ret) >= 1 => ret[1] = args.series[1]
        /\ Present(args.series) = args.series =>
              \A i \in 1 .. Len(ret) :
                 /\ ~IsNaN(ret[i])
                 /\ ret[i] = PlainMean(WindowOf(args.series, i, args.window))
        /\ (args.series = <<Num(10), Num(20), Num(30)>> /\ args.window = 2)
              => ret = <<Num(10), Num(15), Num(25)>>

C7_Witness ==
    /\ RollingCalled
    /\ args.series = <<Num(10), Num(20), Num(30)>>
    /\ args.window = 2
    /\ ret = <<Num(10), Num(15), Num(25)>>

(***************************************************************************)
(* Claims about build_prop_validator.                                      *)
(***************************************************************************)
PropCalled == pc = "done" /\ op = "build_prop_validator"

NewColumns == {"Rolling_Avg", "Season_Avg", "Signal"}

\* the game log has rows and columns and holds the stat column
PropInputUsable ==
    /\ Len(args.game_log.rows) > 0
    /\ args.stat_col \in args.game_log.cols

\* C8: build_prop_validator returns an empty table and raises no error
\* whenever the game log has no rows or lacks the requested stat column.
C8_EmptyOrNoStatColumn ==
    (PropCalled /\ (Len(args.game_log.rows) = 0
                      \/ args.stat_col \notin args.game_log.cols)) =>
        /\ ~raised
        /\ ret.rows = <<>>
        /\ ret.cols = {}

C8_Witness ==
    /\ PropCalled
    /\ Len(args.game_log.rows) = MaxRows
    /\ args.game_log.cols = {"GAME_DATE"}
    /\ args.stat_col = "PTS"
    /\ ~raised
    /\ ret = EmptyFrame

\* a row of the result without the three added columns
Original(row) == [c \in (DOMAIN row) \ NewColumns |-> row[c]]

\* the rows of a table as a bag
RowBag(rows) ==
    LET S == {rows[i] : i \in 1 .. Len(rows)}
    IN  [r \in S |-> Cardinality({i \in 1 .. Len(rows) : rows[i] = r})]

\* C9: for a non-empty game log holding the stat column, the result holds
\* exactly the input rows (each once, none added or dropped) with their
\* original columns plus Rolling_Avg, Season_Avg and Signal; the rows are in
\* non-decreasing GAME_DATE order when that column exists (no row is followed
\* by a row of an earlier date; rows without a date are not ordered by it and
\* come after the dated ones), and in input order when it does not.
C9_SameRowsInDateOrder ==
    (PropCalled /\ PropInputUsable) =>
        LET in == args.game_log.rows
            out == ret.rows
        IN  /\ ~raised
            /\ ret.cols = args.game_log.cols \cup NewColumns
            /\ Len(out) = Len(in)
            /\ \A i \in 1 .. Len(out) :
                  DOMAIN out[i] = args.game_log.cols \cup NewColumns \cup {"idx"}
            /\ RowBag([i \in 1 .. Len(out) |-> Original(out[i])]) = RowBag(in)
            /\ "GAME_DATE" \in args.game_log.cols =>
                  \A i, j \in 1 .. Len(out) :
                      i < j =>
                          /\ (out[i].GAME_DATE # NaT /\ out[j].GAME_DATE # NaT)
                                => out[i].GAME_DATE <= out[j].GAME_DATE
                          /\ out[i].GAME_DATE = NaT => out[j].GAME_DATE = NaT
            /\ "GAME_DATE" \notin args.game_log.cols =>
                  \A i \in 1 .. Len(out) : Original(out[i]) = in[i]

\* a log given in descending date order comes back reversed
C9_Witness ==
    /\ PropCalled
    /\ PropInputUsable
    /\ Len(args.game_log.rows) = MaxRows
    /\ "GAME_DATE" \in args.game_log.cols
    /\ \A i \in 1 .. MaxRows - 1 :
          /\ args.game_log.rows[i + 1].GAME_DATE # NaT
          /\ args.game_log.rows[i].GAME_DATE >= args.game_log.rows[i + 1].GAME_DATE
    /\ args.game_log.rows[1].GAME_DATE > args.game_log.rows[MaxRows].GAME_DATE
    /\ ret.rows[1].idx = MaxRows
    /\ ret.rows[MaxRows].idx = 1

\* Rolling_Avg > 1.2 * Season_Avg, in whole numbers: r/rd > 6 s / 5 sd
AboveHot(r, s) == r[2] # 0 /\ s[2] # 0 /\ 5 * r[1] * s[2] > 6 * s[1] * r[2]
\* Rolling_Avg < 0.8 * Season_Avg, in whole numbers: r/rd < 4 s / 5 sd
BelowCold(r, s) == r[2] # 0 /\ s[2] # 0 /\ 5 * r[1] * s[2] < 4 * s[1] * r[2]

\* C10: in every row of the result the Signal is one of three values: "Hot
\* Streak" iff Rolling_Avg > 1.2 * Season_Avg, "Cold Streak" iff it is not hot
\* and Rolling_Avg < 0.8 * Season_Avg, "Neutral" otherwise; a Rolling_Avg
\* exactly equal to 1.2 or 0.8 times Season_Avg is Neutral.
C10_SignalThresholds ==
    PropCalled =>
        \A i \in 1 .. Len(ret.rows) :
            LET row == ret.rows[i]
                r == row.Rolling_Avg
                s == row.Season_Avg
            IN  /\ row.Signal \in {"Hot Streak", "Cold Streak", "Neutral"}
                /\ row.Signal = "Hot Streak" <=> AboveHot(r, s)
                /\ row.Signal = "Cold Streak" <=> (~AboveHot(r, s) /\ BelowCold(r, s))
                /\ row.Signal = "Neutral" <=> (~AboveHot(r, s) /\ ~BelowCold(r, s))
                /\ (r[2] # 0 /\ s[2] # 0 /\ 5 * r[1] * s[2] = 6 * s[1] * r[2])
                      => row.Signal = "Neutral"
                /\ (r[2] # 0 /\ s[2] # 0 /\ 5 * r[1] * s[2] = 4 * s[1] * r[2])
                      => row.Signal = "Neutral"

\* one table with a row exactly at 1.2 times a positive season average, which
\* is Neutral, and a row above it, which is hot
C10_Witness ==
    /\ PropCalled
    /\ \E i, j \in 1 .. Len(ret.rows) :
          LET r == ret.rows[i].Rolling_Avg
              s == ret.rows[i].Season_Avg
          IN  /\ r[2] # 0 /\ s[2] # 0 /\ s[1] > 0
              /\ 5 * r[1] * s[2] = 6 * s[1] * r[2]
              /\ ret.rows[i].Signal = "Neutral"
              /\ ret.rows[j].Signal = "Hot Streak"

\* the season average the input gives, taken in input order: the mean of
\* the present stat values, what safe_mean makes of a column
ExpectedSeasonAvg(rows, stat_col) ==
    LET column == [i \in 1 .. Len(rows) |-> rows[i][stat_col]]
    IN  IF Present(column) = <<>> THEN safe_mean(column).value
        ELSE MeanOfPresent(column)

\* C11: Season_Avg has the same value on every row of the result, and that
\* value is safe_mean of the stat column over all rows of the game log,
\* whatever the order the rows were given in.
C11_SeasonAvgConstant ==
    (PropCalled /\ PropInputUsable) =>
        /\ Len(ret.rows) = Len(args.game_log.rows)
        /\ \A i, j \in 1 .. Len(ret.rows) :
              ret.rows[i].Season_Avg = ret.rows[j].Season_Avg
        /\ \A i \in 1 .. Len(ret.rows) :
              ret.rows[i].Season_Avg
                  = ExpectedSeasonAvg(args.game_log.rows, args.stat_col)

\* a log given latest game first, with one missing stat: the average is 5 on
\* all three rows
C11_Witness ==
    /\ PropCalled
    /\ PropInputUsable
    /\ Len(args.game_log.rows) = 3
    /\ "GAME_DATE" \in args.game_log.cols
    /\ args.game_log.rows[1].GAME_DATE = 2
    /\ args.game_log.rows[3].GAME_DATE = 1
    /\ args.game_log.rows[1].PTS = Num(6)
    /\ args.game_log.rows[2].PTS = NaN
    /\ args.game_log.rows[3].PTS = Num(4)
    /\ ret.rows[1].idx = 3
    /\ \A i \in 1 .. 3 : ret.rows[i].Season_Avg = Num(5)

(***************************************************************************)
(* find_player_comps                                                       *)
(***************************************************************************)
CompsCalled == pc = "done" /\ op = "find_player_comps"

\* every requested feature column is a column of the league table
FeaturesPresent ==
    \A k \in 1 .. Len(args.feature_cols) : args.feature_cols[k] \in args.stats.cols

\* the positions of the rows whose Player value is player_name
MatchingRows ==
    IF "Player" \in args.stats.cols
    THEN {i \in 1 .. Len(args.stats.rows) : args.stats.rows[i].Player = args.player_name}
    ELSE {}

\* the table has a Player column, every feature column, and a row of the
\* queried player
CompsInputUsable == FeaturesPresent /\ MatchingRows # {}

\* a score 1 - sqrt(q) is 1 exactly when q = 0 and 0 exactly when q = 1
ScoreIsOne(row) == row.SimilarityScore.radicand = Num(0)
ScoreIsZero(row) == row.SimilarityScore.radicand = Num(1)

\* C12: find_player_comps returns an empty table, without raising, when the
\* league table has no rows, when a requested feature column is missing, and
\* when no row's Player value equals player_name.
C12_EmptyWithoutRaising ==
    (CompsCalled
        /\ \/ Len(args.stats.rows) = 0
           \/ ~FeaturesPresent
           \/ ("Player" \in args.stats.cols /\ MatchingRows = {})) =>
        (~raised /\ ret = EmptyFrame)

\* the part of C12 the code meets: no rows, or a feature column missing
C12_GuardedCases ==
    (CompsCalled /\ (Len(args.stats.rows) = 0 \/ ~FeaturesPresent)) =>
        (~raised /\ ret = EmptyFrame)

Min(a, b) == IF a < b THEN a ELSE b

\* C13: for a table of n distinct players with every feature column and a
\* row of the queried player, find_player_comps returns min(3, n - 1) rows,
\* also for n = 1, 2, 3, and does not fail.
C13_RowCount ==
    (CompsCalled /\ CompsInputUsable) =>
        /\ ~raised
        /\ Len(ret.rows) = Min(NNeighbors - 1, Len(args.stats.rows) - 1)

\* the part of C13 the code meets: three rows from four players on, given
\* at least one feature column
C13_ThreeFromFourPlayers ==
    (CompsCalled /\ CompsInputUsable /\ Len(args.feature_cols) > 0
        /\ Len(args.stats.rows) >= NNeighbors) =>
        (~raised /\ Len(ret.rows) = NNeighbors - 1)

\* C14: the row of the queried player is never among the rows returned, also
\* when other players have the same feature values as the queried player.
C14_SelfNeverReturned ==
    (CompsCalled /\ ~raised) =>
        \A k \in 1 .. Len(ret.rows) : ret.rows[k].idx \notin MatchingRows

\* C15: every returned row has a SimilarityScore between 0 and 1; as the
\* score is 1 - sqrt(q), that is 0 <= q <= 1.
C15_ScoreInUnitInterval ==
    (CompsCalled /\ ~raised) =>
        \A k \in 1 .. Len(ret.rows) :
            /\ Le(Num(0), ret.rows[k].SimilarityScore.radicand)
            /\ Le(ret.rows[k].SimilarityScore.radicand, Num(1))

\* three comps with scores 1, strictly between 0 and 1, and 0
C15_Witness ==
    /\ CompsCalled
    /\ ~raised
    /\ Len(ret.rows) = 3
    /\ ScoreIsOne(ret.rows[1])
    /\ Lt(Num(0), ret.rows[2].SimilarityScore.radicand)
    /\ Lt(ret.rows[2].SimilarityScore.radicand, Num(1))
    /\ ScoreIsZero(ret.rows[3])

\* the feature values of row i of the league table, as given
FeatureValues(i) ==
    [k \in 1 .. Len(args.feature_cols) |-> args.stats.rows[i][args.feature_cols[k]]]

\* the rows of other players whose feature values are those of the queried
\* player
IdenticalOthers ==
    {i \in 1 .. Len(args.stats.rows) :
        /\ i \notin MatchingRows
        /\ \E q \in MatchingRows : FeatureValues(i) = FeatureValues(q)}

\* C16: a player other than the queried one with the same feature values is
\* in the result, with SimilarityScore exactly 1.  Read for tables where the
\* result has room for every such player (at most 3 of them).
C16_IdenticalPlayerScoresOne ==
    (CompsCalled /\ CompsInputUsable /\ Len(args.feature_cols) > 0
        /\ Cardinality(IdenticalOthers) <= NNeighbors - 1) =>
        \A i \in IdenticalOthers :
            /\ ~raised
            /\ \E k \in 1 .. Len(ret.rows) :
                  ret.rows[k].idx = i /\ ScoreIsOne(ret.rows[k])

\* C16 on tables of at least 4 players, where kneighbors has rows enough:
\* the row dropped as the self-match can be the identical player's
C16_FromFourPlayers ==
    (CompsCalled /\ Len(args.stats.rows) >= NNeighbors)
        => C16_IdenticalPlayerScoresOne

\* the part of C16 the code meets: a returned row with the feature values
\* of the queried player has SimilarityScore 1
C16_ReturnedIdenticalScoresOne ==
    (CompsCalled /\ ~raised) =>
        \A k \in 1 .. Len(ret.rows) :
            ret.rows[k].idx \in IdenticalOthers => ScoreIsOne(ret.rows[k])

\* the largest of the distances of the returned rows
LargestDistance == MaxOf(comp_distances)

\* C17 as stated: in a non-empty result the returned row farthest from the
\* queried player has SimilarityScore exactly 0, also when all returned rows
\* are at the same distance.
C17_LeastSimilarScoresZero ==
    (CompsCalled /\ ~raised /\ Len(ret.rows) > 0) =>
        \A k \in 1 .. Len(ret.rows) :
            comp_distances[k] = LargestDistance => ScoreIsZero(ret.rows[k])

\* C17: in a non-empty result the returned row farthest from the queried
\* player has SimilarityScore exactly 0 unless that row is at distance 0
\* itself, and then every returned row has SimilarityScore 1.
C17_LeastSimilarZeroUnlessAllIdentical ==
    (CompsCalled /\ ~raised /\ Len(ret.rows) > 0) =>
        IF LargestDistance = Num(0)
        THEN \A k \in 1 .. Len(ret.rows) : ScoreIsOne(ret.rows[k])
        ELSE \A k \in 1 .. Len(ret.rows) :
                comp_distances[k] = LargestDistance => ScoreIsZero(ret.rows[k])

\* every returned row at distance 0: all scores are 1
C17_Witness ==
    /\ CompsCalled
    /\ ~raised
    /\ Len(ret.rows) = 3
    /\ LargestDistance = Num(0)
    /\ \A k \in 1 .. 3 : ScoreIsOne(ret.rows[k])

\* the returned rows at one distance other than 0: all scores are 0
C17_SameDistanceWitness ==
    /\ CompsCalled
    /\ ~raised
    /\ Len(ret.rows) = 3
    /\ Lt(Num(0), LargestDistance)
    /\ \A k \in 1 .. 3 : ScoreIsZero(ret.rows[k])

C19_PropWitness ==
    /\ PropCalled
    /\ ~raised
    /\ Len(ret.rows) = 3
    /\ ret.rows[1].idx = 3
    /\ NewColumns \subseteq ret.cols
    /\ caller_table.cols \cap NewColumns = {}
    /\ caller_table.rows[1].idx = 1
    /\ caller_table.rows = args.game_log.rows

\* C20: find_player_comps never raises: for every league table, of any
\* number of rows, with or without a Player column, and every list of
\* feature columns, the empty list included, it returns a table.
C20_NeverRaises == CompsCalled => ~raised

\* the part of C20 the code meets: tables of at least 4 players with a
\* Player column and at least one feature column requested
C20_NoRaiseFromFourPlayers ==
    (CompsCalled /\ "Player" \in args.stats.cols /\ Len(args.feature_cols) > 0
        /\ Len(args.stats.rows) >= NNeighbors) => ~raised

\* the league table with every missing value of a requested feature column
\* replaced by 0
ZeroFilled(stats, feature_cols) ==
    [cols |-> stats.cols,
     rows |-> Tabulated([i \in 1 .. Len(stats.rows) |->
                 [c \in DOMAIN stats.rows[i] |->
                     IF (\E k \in 1 .. Len(feature_cols) : feature_cols[k] = c)
                           /\ IsNaN(stats.rows[i][c])
                     THEN Num(0) ELSE stats.rows[i][c]]], Len(stats.rows))]

\* some feature value of the league table is missing
HasMissingFeature ==
    \E i \in 1 .. Len(args.stats.rows), k \in 1 .. Len(args.feature_cols) :
        /\ args.feature_cols[k] \in args.stats.cols
        /\ IsNaN(args.stats.rows[i][args.feature_cols[k]])

\* the rows listed are, after one nearer row, the nearest of the distances
\* d2, nearest first
NearestAfterOne(d2, listed) ==
    \E first \in (1 .. Len(d2)) \ {listed[k] : k \in 1 .. Len(listed)} :
        /\ Le(d2[first], d2[listed[1]])
        /\ \A k \in 1 .. Len(listed) - 1 : Le(d2[listed[k]], d2[listed[k + 1]])
        /\ \A i \in (1 .. Len(d2)) \ ({first} \cup {listed[k] : k \in 1 .. Len(listed)}) :
              Le(d2[listed[Len(listed)]], d2[i])

\* C21: missing feature values count as 0: find_player_comps raises, returns
\* an empty table or returns comps as it does for the table with every
\* missing feature value replaced by 0, and the comps are nearest rows of
\* that table, with the distances and the scores that table gives them.
C21_MissingAsZero ==
    (CompsCalled /\ HasMissingFeature) =>
        \E filled \in {ZeroFilled(args.stats, args.feature_cols)} :
           \E stage \in {comps_stage(filled, args.player_name, args.feature_cols)} :
              /\ (stage = "raise") = raised
              /\ (stage = "empty") = (~raised /\ ret = EmptyFrame)
              /\ stage = "query" =>
                    \E d2 \in {QueryDistances(filled, args.player_name,
                                              args.feature_cols)} :
                       /\ Len(ret.rows) = NNeighbors - 1
                       /\ NearestAfterOne(d2, [k \in 1 .. Len(ret.rows) |-> ret.rows[k].idx])
                       /\ \A k \in 1 .. Len(ret.rows) :
                             /\ comp_distances[k] = d2[ret.rows[k].idx]
                             /\ ret.rows[k].SimilarityScore
                                   = similarity_score(d2[ret.rows[k].idx], comp_distances)

\* the queried player and a returned player both lack PTS, and the scores of
\* the result differ
C21_Witness ==
    /\ CompsCalled
    /\ ~raised
    /\ Len(ret.rows) = 3
    /\ IsNaN(args.stats.rows[1].PTS)
    /\ args.player_name = "P1"
    /\ \E k \in 1 .. 3 : IsNaN(ret.rows[k].PTS) /\ ret.rows[k].idx # 1
    /\ ScoreIsOne(ret.rows[1])
    /\ ScoreIsZero(ret.rows[3])
    /\ ~ScoreIsOne(ret.rows[2]) /\ ~ScoreIsZero(ret.rows[2])

\* C22: the date sort of build_prop_validator is stable: two rows of the
\* game log with the same GAME_DATE come out in the order they went in.
C22_StableDateSort ==
    (PropCalled /\ PropInputUsable /\ "GAME_DATE" \in args.game_log.cols) =>
        \A i, j \in 1 .. Len(ret.rows) :
            (i < j /\ ret.rows[i].GAME_DATE = ret.rows[j].GAME_DATE)
                => ret.rows[i].idx < ret.rows[j].idx

\* the part of C22 the code meets: rows without a date keep their order, and
\* so do all rows of a game log without a GAME_DATE column
C22_UndatedKeepOrder ==
    (PropCalled /\ PropInputUsable) =>
        \A i, j \in 1 .. Len(ret.rows) :
            (i < j /\ ("GAME_DATE" \in args.game_log.cols
                          => (ret.rows[i].GAME_DATE = NaT /\ ret.rows[j].GAME_DATE = NaT)))
                => ret.rows[i].idx < ret.rows[j].idx

\* the stat values of the result rows lo .. hi, in result order
ResultWindow(lo, hi) == [k \in 1 .. hi - lo + 1 |-> ret.rows[lo + k - 1][args.stat_col]]

\* the mean of the values present in a window, missing if there is none
WindowMean(w) == IF Present(w) = <<>> THEN NaN ELSE MeanOfPresent(w)

\* C23: the rolling average is taken after the sort, with window 5: the
\* result is in date order (rows without a date last) and the Rolling_Avg of its row i is the mean of
\* the stat values of its rows max(1, i - 4) .. i, whatever order the rows
\* were supplied in.
C23_RollingAfterSort ==
    (PropCalled /\ PropInputUsable) =>
        /\ "GAME_DATE" \in args.game_log.cols =>
              \A i, j \in 1 .. Len(ret.rows) :
                  (i < j /\ ret.rows[j].GAME_DATE # NaT) =>
                      /\ ret.rows[i].GAME_DATE # NaT
                      /\ ret.rows[i].GAME_DATE <= ret.rows[j].GAME_DATE
        /\ \A i \in 1 .. Len(ret.rows) :
              ret.rows[i].Rolling_Avg
                  = WindowMean(ResultWindow(IF i > 4 THEN i - 4 ELSE 1, i))

\* seven games supplied latest first: the last row of the result is the
\* first supplied, and its Rolling_Avg is the mean of the five latest games,
\* which is not the mean of the five first supplied
C23_Witness ==
    /\ PropCalled
    /\ PropInputUsable
    /\ Len(ret.rows) = 7
    /\ "GAME_DATE" \in args.game_log.cols
    /\ ret.rows[7].idx = 1
    /\ ret.rows[1].idx = 7
    /\ ret.rows[7].Rolling_Avg = WindowMean(ResultWindow(3, 7))
    /\ ret.rows[7].Rolling_Avg # WindowMean(ResultWindow(1, 5))
    /\ ret.rows[7].Rolling_Avg # WindowMean(ResultWindow(1, 7))

\* the season average of the game log is 0
SeasonAvgZero ==
    /\ PropCalled
    /\ PropInputUsable
    /\ ExpectedSeasonAvg(args.game_log.rows, args.stat_col) = Num(0)

\* C24: with a season average of 0 there is no special case: a row with
\* Rolling_Avg > 0 is "Hot Streak", a row with Rolling_Avg = 0 is "Neutral",
\* a row is "Cold Streak" only if its Rolling_Avg is negative; for an
\* all-zero series every row is "Neutral".
C24_ZeroSeasonAverage ==
    SeasonAvgZero =>
        /\ \A i \in 1 .. Len(ret.rows) :
              /\ Gt(ret.rows[i].Rolling_Avg, Num(0)) => ret.rows[i].Signal = "Hot Streak"
              /\ ret.rows[i].Rolling_Avg = Num(0) => ret.rows[i].Signal = "Neutral"
              /\ ret.rows[i].Signal = "Cold Streak" => Lt(ret.rows[i].Rolling_Avg, Num(0))
        /\ (\A i \in 1 .. Len(ret.rows) : ret.rows[i][args.stat_col] = Num(0))
              => \A i \in 1 .. Len(ret.rows) : ret.rows[i].Signal = "Neutral"

\* a season average of 0 with a row above 0, which is Hot, and a row at 0,
\* which is Neutral
C24_Witness ==
    /\ SeasonAvgZero
    /\ \E i \in 1 .. Len(ret.rows) :
          Gt(ret.rows[i].Rolling_Avg, Num(0)) /\ ret.rows[i].Signal = "Hot Streak"
    /\ \E i \in 1 .. Len(ret.rows) :
          ret.rows[i].Rolling_Avg = Num(0) /\ ret.rows[i].Signal = "Neutral"

\* a season average of 0 with a row below 0, which is Cold
C24_ColdWitness ==
    /\ SeasonAvgZero
    /\ \E i \in 1 .. Len(ret.rows) :
          Lt(ret.rows[i].Rolling_Avg, Num(0)) /\ ret.rows[i].Signal = "Cold Streak"

\* an all-zero series of three games: every row Neutral
C24_AllZeroWitness ==
    /\ SeasonAvgZero
    /\ Len(ret.rows) = 3
    /\ \A i \in 1 .. 3 : ret.rows[i].PTS = Num(0) /\ ret.rows[i].Signal = "Neutral"

\* the rows of the game log that are its last five in date order: fewer
\* than five rows are later (by date, or by position without a date column)
LastFive ==
    LET rows == args.game_log.rows
        Later(i) == IF "GAME_DATE" \in args.game_log.cols
                    THEN {j \in 1 .. Len(rows) : rows[j].GAME_DATE > rows[i].GAME_DATE}
                    ELSE {j \in 1 .. Len(rows) : j > i}
    IN  {i \in 1 .. Len(rows) : Cardinality(Later(i)) < 5}

\* 1.3 times a value
ThirtyPercentAbove(x) == Mul(Frac(13, 10), x)

\* the game log has a positive season average and each of its last five
\* games in date order has 1.3 times that average
FiveGamesAboveAverage ==
    /\ PropCalled
    /\ PropInputUsable
    /\ Len(args.game_log.rows) >= 5
    /\ Gt(ExpectedSeasonAvg(args.game_log.rows, args.stat_col), Num(0))
    /\ \A i \in LastFive :
          args.game_log.rows[i][args.stat_col]
              = ThirtyPercentAbove(ExpectedSeasonAvg(args.game_log.rows, args.stat_col))

\* C25: when the season average is positive and each of the last five rows
\* in date order has 1.3 times the season average, the last row returned has
\* Rolling_Avg = 1.3 * Season_Avg and Signal "Hot Streak".
C25_HotAfterFiveAboveAverage ==
    FiveGamesAboveAverage =>
        LET last == ret.rows[Len(ret.rows)]
        IN  /\ Len(ret.rows) = Len(args.game_log.rows)
            /\ last.Rolling_Avg = ThirtyPercentAbove(last.Season_Avg)
            /\ last.Signal = "Hot Streak"

\* seven games supplied latest first, 13 in the latest five and 5 and 0
\* before: the average is 10 and the last row has Rolling_Avg 13, Hot
C25_Witness ==
    /\ FiveGamesAboveAverage
    /\ Len(ret.rows) = 7
    /\ "GAME_DATE" \in args.game_log.cols
    /\ ret.rows[7].idx = 1
    /\ ret.rows[7].Season_Avg = Num(10)
    /\ ret.rows[7].Rolling_Avg = Num(13)
    /\ ret.rows[7].Signal = "Hot Streak"
    /\ ret.rows[4].Signal # "Hot Streak"

(***************************************************************************)
(* _clean_league_stats                                                     *)
(***************************************************************************)
CleanCalled == pc = "done" /\ op = "_clean_league_stats"

\* the cell of row r in the column labelled col of the result
ResultCell(r, col) == ret.rows[r][CHOOSE k \in 1 .. Len(ret.labels) : ret.labels[k] = col]

\* the raw name of each feature column
RawName(col) ==
    IF col = "Points" THEN "PTS"
    ELSE IF col = "Assists" THEN "AST"
    ELSE IF col = "Rebounds" THEN "REB"
    ELSE IF col = "UsageRate" THEN "USG_PCT"
    ELSE "TS_PCT"

FeatureColumns == {"Points", "Assists", "Rebounds", "UsageRate", "TrueShootingPct"}

SourceHas(label) == \E k \in 1 .. Len(args.data.labels) : args.data.labels[k] = label

\* the result has the five feature columns, 0.0 throughout in those the
\* source lacks under either name, and the season label on every row
CleanedAsDeclared ==
    /\ ~raised
    /\ \A col \in FeatureColumns :
          /\ \E k \in 1 .. Len(ret.labels) : ret.labels[k] = col
          /\ (~SourceHas(col) /\ ~SourceHas(RawName(col))) =>
                \A r \in 1 .. Len(ret.rows) : ResultCell(r, col) = Num(0)
    /\ Len(ret.rows) = Len(args.data.rows)
    /\ \A r \in 1 .. Len(ret.rows) : ResultCell(r, "Season") = args.season

\* C26: after _clean_league_stats, for every source table, each of Points,
\* Assists, Rebounds, UsageRate, TrueShootingPct is a column of the result, a
\* column the source omitted under both its names holds 0.0 on every row,
\* and every row carries the season label.
C26_FeatureColumnsPresent == CleanCalled => CleanedAsDeclared

\* the part of C26 the code meets: source tables that hold no feature column
\* under both its raw and its renamed name
C26_WithoutNameClash ==
    (CleanCalled /\ \A col \in FeatureColumns : ~(SourceHas(col) /\ SourceHas(RawName(col))))
        => CleanedAsDeclared

\* a source with PTS and Rebounds only, two rows: Assists is added as 0.0
C26_DefaultedWitness ==
    /\ CleanCalled
    /\ CleanedAsDeclared
    /\ args.data.labels = <<"PTS", "Rebounds">>
    /\ Len(ret.rows) = 2
    /\ ResultCell(1, "Assists") = Num(0)
    /\ ResultCell(1, "Points") = Num(7)
    /\ ResultCell(2, "Rebounds") = NaN

(***************************************************************************)
(* SportConfig, DataLoaderFactory                                          *)
(***************************************************************************)
ConfigCalled == pc = "done" /\ op = "get_sport_config"
LoaderCalled == pc = "done" /\ op = "create_loader"

\* the sport is one get_available_sports() returns
Available(sport) ==
    \E k \in 1 .. Len(get_available_sports) : get_available_sports[k] = sport

\* the loader class of each sport
LoaderClassOf(sport) == IF sport = <<"N", "B", "A">> THEN "NBADataLoader" ELSE "NHLDataLoader"

\* C27: the configuration and the factory support the same sports, those of
\* get_available_sports(): for each of them get_sport_config and
\* create_loader return the config / the loader of that sport, and for
\* every other sport string both raise ValueError.
C27_SameSupportedSports ==
    /\ ConfigCalled =>
          IF Available(args.sport)
          THEN ~raised /\ ret.name = args.sport
          ELSE raised /\ ret = "ValueError"
    /\ LoaderCalled =>
          IF Available(args.sport)
          THEN ~raised /\ ret.class = LoaderClassOf(args.sport)
          ELSE raised /\ ret = "ValueError"

\* the factory was asked for the second available sport and returned its loader
C27_Witness ==
    /\ LoaderCalled
    /\ args.sport = <<"N", "H", "L">>
    /\ Available(args.sport)
    /\ ~raised
    /\ ret.class = "NHLDataLoader"

\* a string that differs from an available sport only in case: ValueError
C27_OtherStringWitness ==
    /\ ConfigCalled
    /\ args.sport = <<"n", "b", "a">>
    /\ raised

(***************************************************************************)
(* Claims about the fetch functions of src/data_loader.py.                 *)
(***************************************************************************)
FetchFunctions ==
    {"list_active_players", "list_active_teams", "load_player_game_log",
     "load_team_game_log", "load_league_player_stats", "load_nhl_standings",
     "load_nhl_team_stats"}
FetchCalled == pc = "done" /\ op \in FetchFunctions

\* C28: a fetch function never raises, whatever the remote side does: without
\* the client, with a failing request, and with a payload that lacks entries
\* (an NHL team whose teamStats list is empty included) it returns a table.
C28_FetchNeverRaises == FetchCalled => ~raised

\* C28, the part the code keeps: without the NBA client, and with a request
\* that raises, every fetch function returns the empty table.
C28_EmptyOnFailedRequest ==
    (/\ FetchCalled
     /\ \/ args.request = "raises"
        \/ op \notin {"load_nhl_standings", "load_nhl_team_stats"} /\ ~args.available)
        => ~raised /\ ret = EmptyTable

\* C28: load_nhl_team_stats was handed a team whose teamStats list is empty
C28_EmptyTeamStats ==
    /\ pc = "done" /\ op = "load_nhl_team_stats"
    /\ args.request = "json" /\ args.payload.present
    /\ args.payload.teams = <<"stats", "empty_teamStats">>
    /\ raised

(***************************************************************************)
(* Claims about the dashboard script src/app.py.                           *)
(***************************************************************************)
AppCalled == op = "app.py"
\* the run reaches the NBA analytics tabs: sport NBA, lists loaded, player
\* id resolved
ReachesTabs ==
    /\ AppCalled
    /\ args.sport = NBA /\ ~args.teams_empty /\ ~args.players_empty
    /\ args.player_found

\* C29: in every run of the script that reaches the NBA analytics tabs each
\* name is bound before it is read, feature_cols before the Advanced Stats
\* tab evaluates it included: no run ends in NameError.
C29_AssignedBeforeRead == ReachesTabs => ~raised

\* C29, the part the code keeps: the only name read unbound is feature_cols,
\* in the Advanced Stats tab of a run whose league_stats is not empty; a run
\* whose league_stats is empty never evaluates feature_cols before line 454
\* and reads no unbound name.
C29_OnlyFeatureCols ==
    (AppCalled /\ raised) =>
        /\ ret.names = {"feature_cols"}
        /\ ReachesTabs /\ ~args.league_stats_empty
        /\ "advanced_tab" \in assigned /\ "comps" \notin assigned

\* C29: a run with a non-empty league table ended in the Advanced Stats tab
C29_NameErrorReached ==
    /\ ReachesTabs /\ ~args.league_stats_empty /\ ~args.player_log_empty
    /\ pc = "done" /\ raised /\ ret.outcome = "NameError"

\* C29: a run with an empty league table ran to its last line
C29_EmptyLeagueFinished ==
    /\ ReachesTabs /\ args.league_stats_empty
    /\ pc = "done" /\ ~raised /\ ret.outcome = "finished"
    /\ "feature_cols" \in assigned

(***************************************************************************)
(* calculate_fatigue_score, input by input.                                *)
(***************************************************************************)
\* C30: with the other two inputs fixed, the score never increases when
\* rest_days increases, never decreases when minutes_last_game increases,
\* and the away score is at least the home score and at most 10 above it.
C30_FatigueMonotone ==
    FatigueCalled =>
        LET r == args.rest_days
            h == args.is_home
            m == args.minutes_last_game
            home == calculate_fatigue_score(r, TRUE, m)
            away == calculate_fatigue_score(r, FALSE, m)
        IN  /\ \A r2 \in RestDaysInputs :
                  r <= r2 => Le(calculate_fatigue_score(r2, h, m), ret)
            /\ \A m2 \in MinutesInputs :
                  Le(m, m2) => Le(ret, calculate_fatigue_score(r, h, m2))
            /\ Le(home, away)
            /\ Le(away, Add(home, Num(TravelPenalty)))
            /\ ret = (IF h THEN home ELSE away)

\* an away call in the middle of every range: one more rest day lowers the
\* score, half a minute more raises it, the same game at home scores 10 less
C30_Witness ==
    /\ FatigueCalled
    /\ args.rest_days = 3 /\ ~args.is_home /\ args.minutes_last_game = Num(24)
    /\ ret = Num(85)
    /\ Lt(calculate_fatigue_score(4, FALSE, Num(24)), ret)
    /\ Lt(ret, calculate_fatigue_score(3, FALSE, Frac(49, 2)))
    /\ Add(calculate_fatigue_score(3, TRUE, Num(24)), Num(TravelPenalty)) = ret

=============================================================================
